---- MODULE Spec2Model ----
(***************************************************************************)
(* Model of the read-query core of the mango indexer RPC layer:           *)
(* crates/mgo-indexer/src/apis/indexer_api_v2.rs (IndexerApiV2).          *)
(*                                                                         *)
(* The four listing operations (get_owned_objects, query_transaction_-    *)
(* blocks, query_events, get_dynamic_fields), the per-item task fan-out   *)
(* of get_owned_objects and the two-probe get_dynamic_field_object are    *)
(* translated from the handler code.  The IndexerReader behind them is an *)
(* external collaborator: its replies are chosen nondeterministically.    *)
(***************************************************************************)
EXTENDS Integers, Sequences, FiniteSets, TLC

(***************************************************************************)
(* Bounds of the model.                                                    *)
(***************************************************************************)
\* Object ids / digests / event ids of the backend's result set are 1..MaxKey.
MaxKey ==
    3

\* The system maximum page size (QUERY_MAX_RESULT_LIMIT), scaled down.
MaxPageLimit ==
    2

\* Parents of dynamic fields are 1..MaxParent.
MaxParent ==
    2

\* Values of a dynamic field name are 1..MaxNameValue.
MaxNameValue ==
    1

\* Names have 1..MaxLabels dot-separated labels; addresses are 1..MaxAddress.
MaxLabels ==
    2

MaxAddress ==
    1

\* A package lists at most MaxDeps normal dependencies.
MaxDeps ==
    2

\* Object versions are 1..MaxVersion.
MaxVersion ==
    2

\* Payloads (digests, messages, task ids) of errors are 1..MaxErrorDetail.
MaxErrorDetail ==
    3

(***************************************************************************)
(* Option<T>: None is the empty sequence, Some(x) the one-element one.     *)
(***************************************************************************)
None ==
    <<>>

Some(x) ==
    <<x>>

is_some(o) ==
    Len(o) = 1

unwrap(o) ==
    o[1]

unwrap_or(o, default) ==
    IF is_some(o) THEN o[1] ELSE default

Min(a, b) ==
    IF a <= b THEN a ELSE b

(***************************************************************************)
(* Vec<T> helpers used by the handlers.                                    *)
(***************************************************************************)
\* Vec::truncate(n): keeps the first n elements, no effect when n >= len.
truncate(v, n) ==
    SubSeq(v, 1, Min(n, Len(v)))

\* Vec::last(): None on an empty vector.
last(v) ==
    IF Len(v) = 0 THEN None ELSE Some(v[Len(v)])

(***************************************************************************)
(* Value domains of the handlers' arguments.                               *)
(***************************************************************************)
Keys ==
    1..MaxKey

Cursors ==
    {None} \cup {Some(k) : k \in Keys}

\* Caller-supplied limits: None, 0, and positive values up to one above the
\* system maximum.
Limits ==
    {None} \cup {Some(n) : n \in 0..(MaxPageLimit + 1)}

OptBools ==
    {None, Some(TRUE), Some(FALSE)}

\* Option<MgoObjectResponseQuery>, reduced to the options.show_display flag.
Queries ==
    {None, Some([show_display |-> TRUE]), Some([show_display |-> FALSE])}

RowKinds ==
    {"Exists", "NotExists", "Deleted"}

(***************************************************************************)
(* cap_page_limit (mgo_json_rpc_api): None becomes the system default, a   *)
(* value above the system maximum becomes the maximum.                     *)
(***************************************************************************)
DefaultPageLimit ==
    MaxPageLimit

cap_page_limit(l) ==
    IF ~is_some(l) THEN DefaultPageLimit
    ELSE IF unwrap(l) > MaxPageLimit THEN MaxPageLimit
    ELSE unwrap(l)

(***************************************************************************)
(* Page<T, C>.                                                             *)
(***************************************************************************)
Page(data, next_cursor, has_next_page) ==
    [data |-> data, next_cursor |-> next_cursor, has_next_page |-> has_next_page]

\* Page::empty()
PageEmpty ==
    Page(<<>>, None, FALSE)

Ok(v) ==
    [status |-> "ok", value |-> v]

Err(e) ==
    [status |-> "err", error |-> e]

NoResult ==
    [status |-> "none"]

VARIABLES
    store,          \* backend rows: key -> "absent" or the kind of its object
    fields,         \* backend objects at derived dynamic-field ids
    pc,             \* position of the request: "idle", "join", "done"
    op,             \* name of the operation of the current request
    args,           \* its arguments as supplied by the caller
    limit,          \* effective limit (after cap_page_limit)
    backendLog,     \* calls made on the IndexerReader by the current request
    fetched,        \* rows returned by the listing call of the reader
    has_next_page,  \* local of the handler
    next_cursor,    \* local of the handler
    objects,        \* get_owned_objects: ObjectReads after truncation
    tasks,          \* get_owned_objects: spawned per-item tasks (JoinHandles)
    completed,      \* get_owned_objects: indices of tasks in completion order
    name_bcs_value, \* get_dynamic_field_object: local, None until computed
    result,         \* RpcResult of the current request
    client          \* paging caller (PagingSpec only)

vars ==
    <<store, fields, pc, op, args, limit, backendLog, fetched, has_next_page,
      next_cursor, objects, tasks, completed, name_bcs_value, result, client>>

(***************************************************************************)
(* The IndexerReader (external collaborator).  A listing returns the rows  *)
(* strictly after the cursor in the endpoint's order.                      *)
(***************************************************************************)
RECURSIVE Ascending(_)
Ascending(S) ==
    IF S = {} THEN <<>>
    ELSE LET m == CHOOSE x \in S : \A y \in S : x <= y
         IN <<m>> \o Ascending(S \ {m})

RECURSIVE Descending(_)
Descending(S) ==
    IF S = {} THEN <<>>
    ELSE LET m == CHOOSE x \in S : \A y \in S : x >= y
         IN <<m>> \o Descending(S \ {m})

Present ==
    {k \in Keys : store[k] # "absent"}

\* Keys of the rows strictly after the (exclusive) cursor, in query order.
RowsAfter(cursor, descending) ==
    IF descending
    THEN Descending({k \in Present : ~is_some(cursor) \/ k < unwrap(cursor)})
    ELSE Ascending({k \in Present : ~is_some(cursor) \/ k > unwrap(cursor)})

\* How a listing call of the reader answers when asked for n rows: the first
\* n rows ("faithful"), all the rows (the row count is not honoured: "all"),
\* a failure of the reader ("fail"), or the reader's rejection of the
\* request as an invalid argument ("invalid").
BackendModes ==
    {"faithful", "all", "fail", "invalid"}

Listing(mode, cursor, descending, n) ==
    CASE mode = "faithful" -> Ok(truncate(RowsAfter(cursor, descending), n))
      [] mode = "all"      -> Ok(RowsAfter(cursor, descending))
      [] mode = "fail"     -> Err("IndexerError")
      [] mode = "invalid"  -> Err("InvalidArgumentError")

BackendCall(method, cursor, descending, n) ==
    [method |-> method, cursor |-> cursor, descending |-> descending,
     limit |-> n]


\* Rows as the reader returns them: stored objects, transaction block
\* responses, events and dynamic-field infos, each with its key field.
StoredObjects(keys) ==
    [i \in 1..Len(keys) |-> [object_id |-> keys[i]]]

TransactionBlocks(keys) ==
    [i \in 1..Len(keys) |-> [digest |-> keys[i]]]

Events(keys) ==
    [i \in 1..Len(keys) |-> [id |-> keys[i]]]

DynamicFieldInfos(keys) ==
    [i \in 1..Len(keys) |-> [object_id |-> keys[i]]]

(***************************************************************************)
(* Errors reaching the RPC caller: the source error and the conversion it  *)
(* went through ("from": the ? operator, "anyhow": anyhow::anyhow!(e)).    *)
(***************************************************************************)
RpcError(via, e) ==
    [via |-> via, source |-> e]

(***************************************************************************)
(* Frame of a request that completes in one step.                          *)
(***************************************************************************)
Complete(name, a, lim, log, rows, res) ==
    /\ pc' = "done"
    /\ op' = name
    /\ args' = a
    /\ limit' = lim
    /\ backendLog' = log
    /\ fetched' = rows
    /\ result' = res
    /\ has_next_page' = FALSE
    /\ next_cursor' = None
    /\ objects' = <<>>
    /\ tasks' = <<>>
    /\ completed' = <<>>
    /\ name_bcs_value' = None
    /\ UNCHANGED <<store, fields, client>>

(***************************************************************************)
(* query_transaction_blocks                                                *)
(***************************************************************************)
\* Mutant: has_next_page computed with >= instead of >.
query_transaction_blocks_page_ge(results, lim) ==
    LET hnp == Len(results) >= lim
        res == truncate(results, lim)
        nc  == IF Len(res) = 0 THEN None ELSE Some(res[Len(res)].digest)
    IN Page(res, nc, hnp)

\* lines 163-170: has_next_page, truncate, next_cursor, Page
query_transaction_blocks_page(results, lim) ==
    LET hnp == Len(results) > lim
        res == truncate(results, lim)
        nc  == IF Len(res) = 0 THEN None ELSE Some(res[Len(res)].digest)
    IN Page(res, nc, hnp)

query_transaction_blocks(cursor, lim_arg, descending_order, mode) ==
    LET a     == [cursor |-> cursor, limit |-> lim_arg,
                  descending_order |-> descending_order]
        lim   == cap_page_limit(lim_arg)
        desc  == unwrap_or(descending_order, FALSE)
        log   == <<BackendCall("query_transaction_blocks_in_blocking_task",
                               cursor, desc, lim + 1)>>
        reply == Listing(mode, cursor, desc, lim + 1)
    IN /\ pc = "idle"
       /\ IF lim = 0
          THEN Complete("query_transaction_blocks", a, lim, <<>>, <<>>,
                        Ok(PageEmpty))
          ELSE IF reply.status = "err"
          THEN Complete("query_transaction_blocks", a, lim, log, <<>>,
                        Err(RpcError("anyhow", reply.error)))
          ELSE LET results == TransactionBlocks(reply.value)
               IN Complete("query_transaction_blocks", a, lim, log, results,
                           Ok(query_transaction_blocks_page(results, lim)))

(***************************************************************************)
(* query_events                                                            *)
(***************************************************************************)
\* Mutant: next_cursor taken from the last fetched row, before truncation.
query_events_page_cursor_first(results, lim) ==
    LET hnp == Len(results) > lim
        nc  == IF Len(results) = 0 THEN None
               ELSE Some(results[Len(results)].id)
        res == truncate(results, lim)
    IN Page(res, nc, hnp)

\* lines 191-198
query_events_page(results, lim) ==
    LET hnp == Len(results) > lim
        res == truncate(results, lim)
        nc  == IF Len(res) = 0 THEN None ELSE Some(res[Len(res)].id)
    IN Page(res, nc, hnp)

\* Mutant: the handler without the early return on limit == 0.
query_events_no_zero_check(cursor, lim_arg, descending_order, mode) ==
    LET a     == [cursor |-> cursor, limit |-> lim_arg,
                  descending_order |-> descending_order]
        lim   == cap_page_limit(lim_arg)
        desc  == unwrap_or(descending_order, FALSE)
        log   == <<BackendCall("query_events_in_blocking_task",
                               cursor, desc, lim + 1)>>
        reply == Listing(mode, cursor, desc, lim + 1)
    IN /\ pc = "idle"
       /\ IF reply.status = "err"
          THEN Complete("query_events", a, lim, log, <<>>,
                        Err(RpcError("from", reply.error)))
          ELSE LET results == Events(reply.value)
               IN Complete("query_events", a, lim, log, results,
                           Ok(query_events_page(results, lim)))

query_events(cursor, lim_arg, descending_order, mode) ==
    LET a     == [cursor |-> cursor, limit |-> lim_arg,
                  descending_order |-> descending_order]
        lim   == cap_page_limit(lim_arg)
        desc  == unwrap_or(descending_order, FALSE)
        log   == <<BackendCall("query_events_in_blocking_task",
                               cursor, desc, lim + 1)>>
        reply == Listing(mode, cursor, desc, lim + 1)
    IN /\ pc = "idle"
       /\ IF lim = 0
          THEN Complete("query_events", a, lim, <<>>, <<>>, Ok(PageEmpty))
          ELSE IF reply.status = "err"
          THEN Complete("query_events", a, lim, log, <<>>,
                        Err(RpcError("from", reply.error)))
          ELSE LET results == Events(reply.value)
               IN Complete("query_events", a, lim, log, results,
                           Ok(query_events_page(results, lim)))

(***************************************************************************)
(* get_dynamic_fields                                                      *)
(***************************************************************************)
\* Mutant: next_cursor taken from the last fetched row, before truncation.
get_dynamic_fields_page_cursor_first(results, lim) ==
    LET hnp == Len(results) > lim
        nc  == IF Len(results) = 0 THEN None
               ELSE Some(results[Len(results)].object_id)
        res == truncate(results, lim)
    IN Page(res, nc, hnp)

\* lines 216-223
get_dynamic_fields_page(results, lim) ==
    LET hnp == Len(results) > lim
        res == truncate(results, lim)
        nc  == IF Len(res) = 0 THEN None ELSE Some(res[Len(res)].object_id)
    IN Page(res, nc, hnp)

\* Mutant: the caller's limit is used without cap_page_limit.
get_dynamic_fields_uncapped(cursor, lim_arg, mode) ==
    LET a     == [cursor |-> cursor, limit |-> lim_arg, descending_order |-> None]
        lim   == unwrap_or(lim_arg, DefaultPageLimit)
        log   == <<BackendCall("get_dynamic_fields_in_blocking_task",
                               cursor, FALSE, lim + 1)>>
        reply == Listing(mode, cursor, FALSE, lim + 1)
    IN /\ pc = "idle"
       /\ IF lim = 0
          THEN Complete("get_dynamic_fields", a, lim, <<>>, <<>>, Ok(PageEmpty))
          ELSE IF reply.status = "err"
          THEN Complete("get_dynamic_fields", a, lim, log, <<>>,
                        Err(RpcError("from", reply.error)))
          ELSE LET results == DynamicFieldInfos(reply.value)
               IN Complete("get_dynamic_fields", a, lim, log, results,
                           Ok(get_dynamic_fields_page(results, lim)))

get_dynamic_fields(cursor, lim_arg, mode) ==
    LET a     == [cursor |-> cursor, limit |-> lim_arg, descending_order |-> None]
        lim   == cap_page_limit(lim_arg)
        log   == <<BackendCall("get_dynamic_fields_in_blocking_task",
                               cursor, FALSE, lim + 1)>>
        reply == Listing(mode, cursor, FALSE, lim + 1)
    IN /\ pc = "idle"
       /\ IF lim = 0
          THEN Complete("get_dynamic_fields", a, lim, <<>>, <<>>, Ok(PageEmpty))
          ELSE IF reply.status = "err"
          THEN Complete("get_dynamic_fields", a, lim, log, <<>>,
                        Err(RpcError("from", reply.error)))
          ELSE LET results == DynamicFieldInfos(reply.value)
               IN Complete("get_dynamic_fields", a, lim, log, results,
                           Ok(get_dynamic_fields_page(results, lim)))

(***************************************************************************)
(* get_owned_objects                                                       *)
(***************************************************************************)
\* Version and digest stored with the object of key k.
RowVersion(k) ==
    10 + k

RowDigest(k) ==
    20 + k

ObjectRef(k) ==
    [object_id |-> k, version |-> RowVersion(k), digest |-> RowDigest(k)]

\* StoredObject::try_into_object_read: the ObjectRead of a fetched row.
try_into_object_read(row) ==
    CASE store[row.object_id] = "NotExists" ->
           [kind |-> "NotExists", object_id |-> row.object_id]
      [] store[row.object_id] = "Deleted" ->
           [kind |-> "Deleted", object_ref |-> ObjectRef(row.object_id)]
      [] OTHER ->
           [kind |-> "Exists", object_ref |-> ObjectRef(row.object_id),
            o |-> row.object_id]

\* ObjectRead::object_id()
object_id(o_read) ==
    IF o_read.kind = "NotExists" THEN o_read.object_id
    ELSE o_read.object_ref.object_id

\* MgoObjectResponse::new(data, error)
MgoObjectResponse(data, error) ==
    [data |-> data, error |-> error]

\* (object_ref, o, layout, options, display).try_into(): MgoObjectData
MgoObjectData(object_ref, o, display) ==
    [object_id |-> object_ref.object_id, version |-> object_ref.version,
     digest |-> object_ref.digest, content |-> o, display |-> display]

\* the fields get_display_fields renders for object o
RenderedFields(o) ==
    [rendered |-> o]

TaskOk(resp) ==
    [kind |-> "Ok", resp |-> resp]

TaskErr ==
    [kind |-> "Err", error |-> "ConversionError"]

JoinError(reason) ==
    [kind |-> "JoinError", error |-> reason]

\* Mutant: a failed display lookup is propagated as the task's error.
task_body_display_propagates(o, show_display, display_ok, conv_ok) ==
    CASE o.kind = "NotExists" ->
           TaskOk(MgoObjectResponse(None,
                    Some([code |-> "NotExists", object_id |-> o.object_id])))
      [] o.kind = "Exists" ->
           IF show_display /\ ~display_ok THEN TaskErr
           ELSE IF ~conv_ok THEN TaskErr
           ELSE TaskOk(MgoObjectResponse(
                  Some(MgoObjectData(o.object_ref, o.o,
                         IF show_display THEN Some(RenderedFields(o.o))
                         ELSE None)),
                  None))
      [] o.kind = "Deleted" ->
           TaskOk(MgoObjectResponse(None,
                    Some([code |-> "Deleted",
                          object_id |-> o.object_ref.object_id,
                          version |-> o.object_ref.version,
                          digest |-> o.object_ref.digest])))

\* Mutant: show_display is ignored (display fields are always rendered) and
\* the Deleted arm reports the object as NotExists.
task_body_variants_confused(o, show_display, display_ok, conv_ok) ==
    CASE o.kind = "NotExists" ->
           TaskOk(MgoObjectResponse(None,
                    Some([code |-> "NotExists", object_id |-> o.object_id])))
      [] o.kind = "Exists" ->
           IF ~conv_ok THEN TaskErr
           ELSE IF display_ok
           THEN TaskOk(MgoObjectResponse(
                  Some(MgoObjectData(o.object_ref, o.o,
                                     Some(RenderedFields(o.o)))), None))
           ELSE TaskOk(MgoObjectResponse(
                  Some(MgoObjectData(o.object_ref, o.o, None)),
                  Some([code |-> "DisplayError",
                        error |-> "display lookup failed"])))
      [] o.kind = "Deleted" ->
           TaskOk(MgoObjectResponse(None,
                    Some([code |-> "NotExists",
                          object_id |-> o.object_ref.object_id])))

\* lines 73-104: the body of the task spawned for o.  display_ok: the
\* display-field lookup succeeds; conv_ok: the try_into conversion succeeds.
task_body(o, show_display, display_ok, conv_ok) ==
    CASE o.kind = "NotExists" ->
           TaskOk(MgoObjectResponse(None,
                    Some([code |-> "NotExists", object_id |-> o.object_id])))
      [] o.kind = "Exists" ->
           IF show_display
           THEN IF display_ok
                THEN IF conv_ok
                     THEN TaskOk(MgoObjectResponse(
                            Some(MgoObjectData(o.object_ref, o.o,
                                               Some(RenderedFields(o.o)))),
                            None))
                     ELSE TaskErr
                ELSE IF conv_ok
                     THEN TaskOk(MgoObjectResponse(
                            Some(MgoObjectData(o.object_ref, o.o, None)),
                            Some([code |-> "DisplayError",
                                  error |-> "display lookup failed"])))
                     ELSE TaskErr
           ELSE IF conv_ok
                THEN TaskOk(MgoObjectResponse(
                       Some(MgoObjectData(o.object_ref, o.o, None)), None))
                ELSE TaskErr
      [] o.kind = "Deleted" ->
           TaskOk(MgoObjectResponse(None,
                    Some([code |-> "Deleted",
                          object_id |-> o.object_ref.object_id,
                          version |-> o.object_ref.version,
                          digest |-> o.object_ref.digest])))

\* number of get_display_fields calls made by the body of the task for o
display_lookups(o, show_display) ==
    IF o.kind = "Exists" /\ show_display THEN 1 ELSE 0

\* Mutant: the fetched objects are not truncated to the limit.
get_owned_objects_paginate_no_truncate(objs, lim) ==
    [has_next_page |-> Len(objs) > lim,
     objects |-> objs,
     next_cursor |-> IF Len(objs) = 0 THEN None
                     ELSE Some(object_id(objs[Len(objs)]))]

\* lines 64-67: has_next_page, truncate, next_cursor
get_owned_objects_paginate(objs, lim) ==
    LET res == truncate(objs, lim)
    IN [has_next_page |-> Len(objs) > lim,
        objects |-> res,
        next_cursor |-> IF Len(res) = 0 THEN None
                        ELSE Some(object_id(res[Len(res)]))]

\* lines 68-72, 105: one spawned task per object of the truncated vector
spawn_tasks(objs) ==
    [i \in 1..Len(objs) |->
        [state |-> "spawned", outcome |-> "none", conv |-> "none",
         display_calls |-> 0, display |-> "none"]]

\* The rows with the outcome of their conversion: readable is FALSE for the
\* row on which try_into_object_read fails.
Readable(rows, bad) ==
    [i \in 1..Len(rows) |->
        [object_id |-> rows[i].object_id, readable |-> i # bad]]

\* Mutant: the rows are truncated to the limit before they are converted.
get_owned_objects_truncate_first(query, cursor, lim_arg, mode, bad) ==
    LET a     == [query |-> query, cursor |-> cursor, limit |-> lim_arg]
        lim   == cap_page_limit(lim_arg)
        log   == <<BackendCall("get_owned_objects_in_blocking_task",
                               cursor, FALSE, lim + 1)>>
        reply == Listing(mode, cursor, FALSE, lim + 1)
    IN /\ pc = "idle"
       /\ IF lim = 0
          THEN Complete("get_owned_objects", a, lim, <<>>, <<>>, Ok(PageEmpty))
          ELSE IF reply.status = "err"
          THEN Complete("get_owned_objects", a, lim, log, <<>>,
                        Err(RpcError("from", reply.error)))
          ELSE LET rows == Readable(StoredObjects(reply.value), bad)
               IN /\ bad \in 0..Len(rows)
                  /\ IF bad # 0 /\ bad <= lim
                     THEN Complete("get_owned_objects", a, lim, log, rows,
                                   Err(RpcError("from", "ObjectReadError")))
                     ELSE LET objs == [i \in 1..Len(rows) |->
                                         try_into_object_read(rows[i])]
                              pg   == get_owned_objects_paginate(objs, lim)
                          IN /\ pc' = "join"
                             /\ op' = "get_owned_objects"
                             /\ args' = a
                             /\ limit' = lim
                             /\ backendLog' = log
                             /\ fetched' = rows
                             /\ has_next_page' = pg.has_next_page
                             /\ objects' = pg.objects
                             /\ next_cursor' = pg.next_cursor
                             /\ tasks' = spawn_tasks(pg.objects)
                             /\ completed' = <<>>
                             /\ name_bcs_value' = None
                             /\ result' = NoResult
                             /\ UNCHANGED <<store, fields, client>>

\* get_owned_objects up to the join_all await.  bad: index of the first
\* fetched row whose conversion to ObjectRead fails, 0 when none does; all
\* the fetched rows are converted (lines 55-63) before the truncation.
get_owned_objects(query, cursor, lim_arg, mode, bad) ==
    LET a     == [query |-> query, cursor |-> cursor, limit |-> lim_arg]
        lim   == cap_page_limit(lim_arg)
        log   == <<BackendCall("get_owned_objects_in_blocking_task",
                               cursor, FALSE, lim + 1)>>
        reply == Listing(mode, cursor, FALSE, lim + 1)
    IN /\ pc = "idle"
       /\ IF lim = 0
          THEN Complete("get_owned_objects", a, lim, <<>>, <<>>, Ok(PageEmpty))
          ELSE IF reply.status = "err"
          THEN Complete("get_owned_objects", a, lim, log, <<>>,
                        Err(RpcError("from", reply.error)))
          ELSE LET rows == Readable(StoredObjects(reply.value), bad)
               IN /\ bad \in 0..Len(rows)
                  /\ IF bad # 0
                     THEN Complete("get_owned_objects", a, lim, log, rows,
                                   Err(RpcError("from", "ObjectReadError")))
                     ELSE LET objs == [i \in 1..Len(rows) |->
                                         try_into_object_read(rows[i])]
                              pg   == get_owned_objects_paginate(objs, lim)
                          IN /\ pc' = "join"
                             /\ op' = "get_owned_objects"
                             /\ args' = a
                             /\ limit' = lim
                             /\ backendLog' = log
                             /\ fetched' = rows
                             /\ has_next_page' = pg.has_next_page
                             /\ objects' = pg.objects
                             /\ next_cursor' = pg.next_cursor
                             /\ tasks' = spawn_tasks(pg.objects)
                             /\ completed' = <<>>
                             /\ name_bcs_value' = None
                             /\ result' = NoResult
                             /\ UNCHANGED <<store, fields, client>>

\* options.show_display of the current get_owned_objects request
ShowDisplay ==
    IF is_some(args.query) THEN unwrap(args.query).show_display ELSE FALSE

\* The i-th spawned task runs to its end.  outcome: "run" (the body returns),
\* "panic" (the body panics after its lookups), "cancelled" (the task is
\* cancelled before it runs); the last two end in a JoinError.
task(i, outcome, display_ok, conv_ok) ==
    /\ pc = "join"
    /\ i \in 1..Len(tasks)
    /\ tasks[i].state = "spawned"
    /\ tasks' = [tasks EXCEPT ![i] =
                   [state |-> "finished",
                    outcome |-> outcome,
                    conv |->
                        IF outcome = "run" /\ objects[i].kind = "Exists"
                        THEN IF conv_ok THEN "ok" ELSE "failed"
                        ELSE "none",
                    display_calls |->
                        IF outcome = "cancelled" THEN 0
                        ELSE display_lookups(objects[i], ShowDisplay),
                    display |->
                        IF outcome = "cancelled"
                           \/ display_lookups(objects[i], ShowDisplay) = 0
                        THEN "none"
                        ELSE IF display_ok THEN "ok" ELSE "failed",
                    out |->
                        IF outcome = "run"
                        THEN task_body(objects[i], ShowDisplay,
                                       display_ok, conv_ok)
                        ELSE JoinError(outcome)]]
    /\ completed' = Append(completed, i)
    /\ UNCHANGED <<store, fields, pc, op, args, limit, backendLog, fetched,
                   has_next_page, next_cursor, objects, name_bcs_value,
                   result, client>>

\* Mutant: the outputs are gathered in the order the tasks completed.
join_outputs_completion_order(ts, order) ==
    [i \in 1..Len(ts) |-> ts[order[i]].out]

\* futures::future::join_all: the outputs of the handles, in handle order.
join_outputs(ts, order) ==
    [i \in 1..Len(ts) |-> ts[i].out]

\* Mutant: failed tasks are dropped and the remaining responses returned.
collect_partial(outs, cursor, hnp) ==
    Ok(Page(SelectSeq(outs, LAMBDA x : x.kind = "Ok"), cursor, hnp))

\* lines 107-119: collect the outputs; the first JoinError, else the first
\* task error, fails the call; otherwise the page is returned.
collect(outs, cursor, hnp) ==
    IF \E i \in 1..Len(outs) : outs[i].kind = "JoinError"
    THEN LET i == CHOOSE j \in 1..Len(outs) :
                     /\ outs[j].kind = "JoinError"
                     /\ \A h \in 1..(j - 1) : outs[h].kind # "JoinError"
         IN Err(RpcError("anyhow", outs[i].error))
    ELSE IF \E i \in 1..Len(outs) : outs[i].kind = "Err"
    THEN LET i == CHOOSE j \in 1..Len(outs) :
                     /\ outs[j].kind = "Err"
                     /\ \A h \in 1..(j - 1) : outs[h].kind # "Err"
         IN Err(RpcError("from", outs[i].error))
    ELSE Ok(Page([i \in 1..Len(outs) |-> outs[i].resp], cursor, hnp))

\* Mutant: the await also completes as soon as one finished task has failed,
\* with the outputs gathered so far.
join_all_fail_fast ==
    /\ pc = "join"
    /\ \/ \A i \in 1..Len(tasks) : tasks[i].state = "finished"
       \/ \E i \in 1..Len(tasks) :
            tasks[i].state = "finished" /\ tasks[i].out.kind # "Ok"
    /\ result' = collect(join_outputs(
                           SelectSeq(tasks, LAMBDA t : t.state = "finished"),
                           completed),
                         next_cursor, has_next_page)
    /\ pc' = "done"
    /\ UNCHANGED <<store, fields, op, args, limit, backendLog, fetched,
                   has_next_page, next_cursor, objects, tasks, completed,
                   name_bcs_value, client>>

\* The join_all await completes once every spawned task has finished.
join_all ==
    /\ pc = "join"
    /\ \A i \in 1..Len(tasks) : tasks[i].state = "finished"
    /\ result' = collect(join_outputs(tasks, completed), next_cursor,
                         has_next_page)
    /\ pc' = "done"
    /\ UNCHANGED <<store, fields, op, args, limit, backendLog, fetched,
                   has_next_page, next_cursor, objects, tasks, completed,
                   name_bcs_value, client>>

(***************************************************************************)
(* Specification of the listing operations.                                *)
(***************************************************************************)
NoClient ==
    [active |-> FALSE]

NoFields ==
    <<>>

InitRequest ==
    /\ pc = "idle"
    /\ op = "none"
    /\ args = <<>>
    /\ limit = 0
    /\ backendLog = <<>>
    /\ fetched = <<>>
    /\ has_next_page = FALSE
    /\ next_cursor = None
    /\ objects = <<>>
    /\ tasks = <<>>
    /\ completed = <<>>
    /\ name_bcs_value = None
    /\ result = NoResult

Init ==
    /\ store \in [Keys -> {"absent"} \cup RowKinds]
    /\ fields = NoFields
    /\ client = NoClient
    /\ InitRequest

\* The request's locals are dropped once its response has been delivered.
ResetRequest ==
    /\ pc' = "idle"
    /\ op' = "none"
    /\ args' = <<>>
    /\ limit' = 0
    /\ backendLog' = <<>>
    /\ fetched' = <<>>
    /\ has_next_page' = FALSE
    /\ next_cursor' = None
    /\ objects' = <<>>
    /\ tasks' = <<>>
    /\ completed' = <<>>
    /\ name_bcs_value' = None
    /\ result' = NoResult

\* The response has been delivered; the server takes the next request.
respond ==
    /\ pc = "done"
    /\ ~client.active
    /\ ResetRequest
    /\ UNCHANGED <<store, fields, client>>

TaskOutcomes ==
    {"run", "panic", "cancelled"}

Next ==
    \/ \E q \in Queries, c \in Cursors, l \in Limits, m \in BackendModes,
          bad \in 0..MaxKey :
         get_owned_objects(q, c, l, m, bad)
    \/ \E c \in Cursors, l \in Limits, d \in OptBools, m \in BackendModes :
         query_transaction_blocks(c, l, d, m)
    \/ \E c \in Cursors, l \in Limits, d \in OptBools, m \in BackendModes :
         query_events(c, l, d, m)
    \/ \E c \in Cursors, l \in Limits, m \in BackendModes :
         get_dynamic_fields(c, l, m)
    \/ \E i \in 1..MaxPageLimit, oc \in TaskOutcomes, d \in BOOLEAN,
          cv \in BOOLEAN :
         task(i, oc, d, cv)
    \/ join_all
    \/ respond

Spec ==
    Init /\ [][Next]_vars

(***************************************************************************)
(* A paging caller: starts with cursor None and repeats the same listing   *)
(* call with the previous page's next_cursor and a fixed limit > 0, until  *)
(* has_next_page is false.  It gives up when a call fails.  The reader     *)
(* honours the cursor, the order and the requested row count.              *)
(***************************************************************************)
PagingClients ==
    [active : {TRUE},
     op : {"get_owned_objects"},
     query : Queries,
     descending_order : {None},
     limit : {l \in Limits : cap_page_limit(l) > 0},
     cursor : {None}, acc : {<<>>}, pages : {0},
     done : {FALSE}, failed : {FALSE}]
    \cup
    [active : {TRUE},
     op : {"query_transaction_blocks", "query_events"},
     query : {None},
     descending_order : OptBools,
     limit : {l \in Limits : cap_page_limit(l) > 0},
     cursor : {None}, acc : {<<>>}, pages : {0},
     done : {FALSE}, failed : {FALSE}]
    \cup
    [active : {TRUE},
     op : {"get_dynamic_fields"},
     query : {None},
     descending_order : {None},
     limit : {l \in Limits : cap_page_limit(l) > 0},
     cursor : {None}, acc : {<<>>}, pages : {0},
     done : {FALSE}, failed : {FALSE}]

InitPaging ==
    /\ store \in [Keys -> {"absent"} \cup RowKinds]
    /\ fields = NoFields
    /\ client \in PagingClients
    /\ InitRequest

PagingModes ==
    {"faithful", "fail"}

paging_get_owned_objects(mode, bad) ==
    /\ client.active /\ ~client.done /\ client.op = "get_owned_objects"
    /\ get_owned_objects(client.query, client.cursor, client.limit, mode, bad)

paging_query_transaction_blocks(mode) ==
    /\ client.active /\ ~client.done
    /\ client.op = "query_transaction_blocks"
    /\ query_transaction_blocks(client.cursor, client.limit,
                                client.descending_order, mode)

paging_query_events(mode) ==
    /\ client.active /\ ~client.done /\ client.op = "query_events"
    /\ query_events(client.cursor, client.limit, client.descending_order, mode)

paging_get_dynamic_fields(mode) ==
    /\ client.active /\ ~client.done /\ client.op = "get_dynamic_fields"
    /\ get_dynamic_fields(client.cursor, client.limit, mode)

\* key of an element of a page of operation o
PageKey(o, e) ==
    CASE o = "query_transaction_blocks" -> e.digest
      [] o = "query_events" -> e.id
      [] o = "get_dynamic_fields" -> e.object_id
      [] OTHER -> IF is_some(e.data) THEN unwrap(e.data).object_id
                  ELSE unwrap(e.error).object_id

\* The caller takes the response: it appends the page to what it received
\* and goes on from next_cursor, or stops.
client_receive ==
    /\ pc = "done"
    /\ client.active /\ ~client.done
    /\ IF result.status = "err"
       THEN /\ client' = [client EXCEPT !.done = TRUE, !.failed = TRUE]
            /\ UNCHANGED <<pc, op, args, limit, backendLog, fetched,
                           has_next_page, next_cursor, objects, tasks,
                           completed, name_bcs_value, result>>
       ELSE LET page == result.value
                got  == [i \in 1..Len(page.data) |->
                           PageKey(client.op, page.data[i])]
            IN IF page.has_next_page
               THEN /\ client' = [client EXCEPT
                                    !.acc = client.acc \o got,
                                    !.pages = client.pages + 1,
                                    !.cursor = page.next_cursor]
                    /\ ResetRequest
               ELSE /\ client' = [client EXCEPT
                                    !.acc = client.acc \o got,
                                    !.pages = client.pages + 1,
                                    !.done = TRUE]
                    /\ UNCHANGED <<pc, op, args, limit, backendLog, fetched,
                                   has_next_page, next_cursor, objects, tasks,
                                   completed, name_bcs_value, result>>
    /\ UNCHANGED <<store, fields>>

NextPaging ==
    \/ \E m \in PagingModes, bad \in 0..MaxKey :
         paging_get_owned_objects(m, bad)
    \/ \E m \in PagingModes : paging_query_transaction_blocks(m)
    \/ \E m \in PagingModes : paging_query_events(m)
    \/ \E m \in PagingModes : paging_get_dynamic_fields(m)
    \/ \E i \in 1..MaxPageLimit, oc \in TaskOutcomes, d \in BOOLEAN,
          cv \in BOOLEAN :
         task(i, oc, d, cv)
    \/ join_all
    \/ client_receive

PagingSpec ==
    InitPaging /\ [][NextPaging]_vars

(***************************************************************************)
(* get_dynamic_field_object                                                *)
(***************************************************************************)
Parents ==
    1..MaxParent

\* TypeTag of a field name: a base type under `wrapped` applications of the
\* dynamic-object-field wrapper struct.
NameTypes ==
    {[name |-> "u64", wrapped |-> 0]}

\* DynamicFieldInfo::dynamic_object_field_wrapper(type_), as a TypeTag::Struct
dynamic_object_field_wrapper(type_) ==
    [name |-> type_.name, wrapped |-> type_.wrapped + 1]

DynamicFieldNames ==
    [type_ : NameTypes, value : 1..MaxNameValue]

\* the BCS bytes of the name's value
bcs_name(name) ==
    <<name.value>>

\* derive_dynamic_field_id: a collision-free function of its three inputs
derive_dynamic_field_id(parent, type_tag, bcs) ==
    [parent |-> parent, type_tag |-> type_tag, bcs |-> bcs]

FieldIds ==
    {derive_dynamic_field_id(p, t, bcs_name(n)) :
        p \in Parents,
        t \in NameTypes \cup {dynamic_object_field_wrapper(x) : x \in NameTypes},
        n \in DynamicFieldNames}

FieldRef(id) ==
    [object_id |-> id, version |-> 10 + id.parent, digest |-> 20 + id.parent]

\* the ObjectRead the reader returns for id
get_object_read(id) ==
    CASE fields[id] = "NotExists" -> [kind |-> "NotExists", object_id |-> id]
      [] fields[id] = "Deleted" -> [kind |-> "Deleted",
                                     object_ref |-> FieldRef(id)]
      [] OTHER -> [kind |-> "Exists", object_ref |-> FieldRef(id), o |-> id]

\* Mutant: the first probe uses the wrapper type.
field_id_wrapper_first(parent_object_id, name, bcs) ==
    derive_dynamic_field_id(parent_object_id,
                            dynamic_object_field_wrapper(name.type_), bcs)

\* lines 237-242: the id probed first ("Try as Dynamic Field")
field_id(parent_object_id, name, bcs) ==
    derive_dynamic_field_id(parent_object_id, name.type_, bcs)

\* Mutant: the second probe derives its id from the plain name type.
dynamic_object_field_id_plain_type(parent_object_id, name, bcs) ==
    derive_dynamic_field_id(parent_object_id, name.type_, bcs)

\* lines 256-264: the id probed second ("Try as Dynamic Field Object")
dynamic_object_field_id(parent_object_id, name, bcs) ==
    derive_dynamic_field_id(parent_object_id,
                            dynamic_object_field_wrapper(name.type_), bcs)

ReadCall(id) ==
    [method |-> "get_object_read_in_blocking_task", id |-> id,
     reply |-> "pending"]

\* the log with the reply of the last call filled in
Replied(log, reply) ==
    [log EXCEPT ![Len(log)].reply = reply]

\* Frame of the steps of get_dynamic_field_object.
DfoFrame ==
    UNCHANGED <<store, fields, op, args, limit, fetched, has_next_page,
                next_cursor, objects, tasks, completed, client>>

\* lines 226-234: the call, up to the await on the BCS name
get_dynamic_field_object(parent_object_id, name) ==
    /\ pc = "idle"
    /\ pc' = "bcs_name"
    /\ op' = "get_dynamic_field_object"
    /\ args' = [parent_object_id |-> parent_object_id, name |-> name]
    /\ backendLog' =
         <<[method |-> "bcs_name_from_dynamic_field_name_in_blocking_task",
            reply |-> "pending"]>>
    /\ UNCHANGED <<store, fields, limit, fetched, has_next_page, next_cursor,
                   objects, tasks, completed, name_bcs_value, result, client>>

\* lines 231-245: the BCS name arrives (or fails); the first read is issued
bcs_name_returns(ok) ==
    /\ pc = "bcs_name"
    /\ IF ~ok
       THEN /\ backendLog' = Replied(backendLog, "fail")
            /\ result' = Err(RpcError("from", "BcsError"))
            /\ pc' = "done"
            /\ UNCHANGED name_bcs_value
       ELSE LET bcs == bcs_name(args.name)
                id  == field_id(args.parent_object_id, args.name, bcs)
            IN /\ name_bcs_value' = Some(bcs)
               /\ backendLog' =
                    Append(Replied(backendLog, "ok"), ReadCall(id))
               /\ pc' = "read_field"
               /\ UNCHANGED result
    /\ DfoFrame

\* lines 245-267: the first read arrives; Exists returns its data, NotExists
\* and Deleted issue the second read
read_field_returns(ok, conv_ok) ==
    /\ pc = "read_field"
    /\ LET id == backendLog[Len(backendLog)].id
       IN IF ~ok
          THEN /\ backendLog' = Replied(backendLog, "fail")
               /\ result' = Err(RpcError("from", "IndexerError"))
               /\ pc' = "done"
          ELSE LET read == get_object_read(id)
               IN IF read.kind = "Exists"
                  THEN /\ backendLog' = Replied(backendLog, read.kind)
                       /\ result' =
                            IF conv_ok
                            THEN Ok(MgoObjectResponse(
                                   Some(MgoObjectData(read.object_ref, read.o,
                                                      None)), None))
                            ELSE Err(RpcError("from", "ConversionError"))
                       /\ pc' = "done"
                  ELSE /\ backendLog' =
                            Append(Replied(backendLog, read.kind),
                                   ReadCall(dynamic_object_field_id(
                                              args.parent_object_id, args.name,
                                              unwrap(name_bcs_value))))
                       /\ pc' = "read_object_field"
                       /\ UNCHANGED result
    /\ UNCHANGED name_bcs_value
    /\ DfoFrame

\* Mutant: a failed second read is taken for a missing object.
read_object_field_returns_failure_is_not_found(ok, conv_ok) ==
    /\ pc = "read_object_field"
    /\ LET id == backendLog[Len(backendLog)].id
       IN IF ~ok
          THEN /\ backendLog' = Replied(backendLog, "fail")
               /\ result' = Ok(MgoObjectResponse(None,
                              Some([code |-> "DynamicFieldNotFound",
                                    parent_object_id |->
                                        args.parent_object_id])))
          ELSE LET read == get_object_read(id)
               IN /\ backendLog' = Replied(backendLog, read.kind)
                  /\ result' =
                       IF read.kind = "Exists"
                       THEN IF conv_ok
                            THEN Ok(MgoObjectResponse(
                                   Some(MgoObjectData(read.object_ref, read.o,
                                                      None)), None))
                            ELSE Err(RpcError("from", "ConversionError"))
                       ELSE Ok(MgoObjectResponse(None,
                              Some([code |-> "DynamicFieldNotFound",
                                    parent_object_id |->
                                        args.parent_object_id])))
    /\ pc' = "done"
    /\ UNCHANGED name_bcs_value
    /\ DfoFrame

\* Mutant: a field found under neither id is reported as an RPC error.
read_object_field_returns_missing_is_error(ok, conv_ok) ==
    /\ pc = "read_object_field"
    /\ LET id == backendLog[Len(backendLog)].id
       IN IF ~ok
          THEN /\ backendLog' = Replied(backendLog, "fail")
               /\ result' = Err(RpcError("from", "IndexerError"))
          ELSE LET read == get_object_read(id)
               IN /\ backendLog' = Replied(backendLog, read.kind)
                  /\ result' =
                       IF read.kind = "Exists"
                       THEN IF conv_ok
                            THEN Ok(MgoObjectResponse(
                                   Some(MgoObjectData(read.object_ref, read.o,
                                                      None)), None))
                            ELSE Err(RpcError("from", "ConversionError"))
                       ELSE Err(RpcError("from", "DynamicFieldNotFound"))
    /\ pc' = "done"
    /\ UNCHANGED name_bcs_value
    /\ DfoFrame

\* lines 265-282: the second read arrives; Exists returns its data, otherwise
\* the DynamicFieldNotFound response is returned
read_object_field_returns(ok, conv_ok) ==
    /\ pc = "read_object_field"
    /\ LET id == backendLog[Len(backendLog)].id
       IN IF ~ok
          THEN /\ backendLog' = Replied(backendLog, "fail")
               /\ result' = Err(RpcError("from", "IndexerError"))
          ELSE LET read == get_object_read(id)
               IN /\ backendLog' = Replied(backendLog, read.kind)
                  /\ result' =
                       IF read.kind = "Exists"
                       THEN IF conv_ok
                            THEN Ok(MgoObjectResponse(
                                   Some(MgoObjectData(read.object_ref, read.o,
                                                      None)), None))
                            ELSE Err(RpcError("from", "ConversionError"))
                       ELSE Ok(MgoObjectResponse(None,
                              Some([code |-> "DynamicFieldNotFound",
                                    parent_object_id |->
                                        args.parent_object_id])))
    /\ pc' = "done"
    /\ UNCHANGED name_bcs_value
    /\ DfoFrame

InitDynField ==
    /\ store = [k \in Keys |-> "absent"]
    /\ fields \in [FieldIds -> RowKinds]
    /\ client = NoClient
    /\ InitRequest

NextDynField ==
    \/ \E p \in Parents, n \in DynamicFieldNames :
         get_dynamic_field_object(p, n)
    \/ \E ok \in BOOLEAN : bcs_name_returns(ok)
    \/ \E ok \in BOOLEAN, cv \in BOOLEAN : read_field_returns(ok, cv)
    \/ \E ok \in BOOLEAN, cv \in BOOLEAN : read_object_field_returns(ok, cv)
    \/ respond

DynFieldSpec ==
    InitDynField /\ [][NextDynField]_vars

(***************************************************************************)
(* StateReadError and its From impls (mgo-json-rpc/src/authority_state.rs) *)
(***************************************************************************)
ErrorDetails ==
    1..MaxErrorDetail

\* MgoError kinds named by the match of From<MgoError>
ClientMgoErrorKinds ==
    {"IndexStoreNotAvailable", "TransactionNotFound",
     "UnsupportedFeatureError", "UserInputError", "WrongMessageVersion"}

\* MgoError kinds that fall under the `_` arm
OtherMgoErrorKinds ==
    {"StorageError", "ExecutionError", "Unknown"}

UserInputErrorKinds ==
    {"ObjectNotFound", "ObjectDeleted"}

\* IndexStoreNotAvailable is a unit variant; the others carry a payload.
MgoErrors ==
    {[type |-> "MgoError", kind |-> "IndexStoreNotAvailable", detail |-> 0]}
    \cup [type : {"MgoError"},
          kind : (ClientMgoErrorKinds \ {"IndexStoreNotAvailable"})
                   \cup OtherMgoErrorKinds,
          detail : ErrorDetails]

UserInputErrors ==
    [type : {"UserInputError"}, kind : UserInputErrorKinds,
     detail : ErrorDetails]

JoinErrors ==
    [type : {"JoinError"}, kind : {"panic", "cancelled"},
     detail : ErrorDetails]

AnyhowErrors ==
    [type : {"anyhow"}, kind : {"msg"}, detail : ErrorDetails]

RawErrors ==
    MgoErrors \cup UserInputErrors \cup JoinErrors \cup AnyhowErrors

\* StateReadError::Client(StateReadClientError::<variant>(e))
StateReadClient(variant, e) ==
    [branch |-> "Client", variant |-> variant, error |-> e]

\* StateReadError::Internal(StateReadInternalError::<variant>(e))
StateReadInternal(variant, e) ==
    [branch |-> "Internal", variant |-> variant, error |-> e]

\* Mutant: WrongMessageVersion is left to the `_` arm.
from_mgo_error_version_internal(e) ==
    IF e.kind \in {"IndexStoreNotAvailable", "TransactionNotFound",
                   "UnsupportedFeatureError", "UserInputError"}
    THEN StateReadClient("MgoError", e)
    ELSE StateReadInternal("MgoError", e)

\* lines 668-679: impl From<MgoError> for StateReadError
from_mgo_error(e) ==
    IF e.kind \in {"IndexStoreNotAvailable", "TransactionNotFound",
                   "UnsupportedFeatureError", "UserInputError",
                   "WrongMessageVersion"}
    THEN StateReadClient("MgoError", e)
    ELSE StateReadInternal("MgoError", e)

\* lines 681-685: impl From<UserInputError> for StateReadError
from_user_input_error(e) ==
    StateReadClient("UserInputError", e)

\* lines 687-691: impl From<JoinError> for StateReadError
from_join_error(e) ==
    StateReadInternal("JoinError", e)

\* lines 693-697: impl From<anyhow::Error> for StateReadError
from_anyhow(e) ==
    StateReadInternal("Anyhow", e)

\* the From impl the compiler selects for the type of e
state_read_error_from(e) ==
    CASE e.type = "MgoError" -> from_mgo_error(e)
      [] e.type = "UserInputError" -> from_user_input_error(e)
      [] e.type = "JoinError" -> from_join_error(e)
      [] e.type = "anyhow" -> from_anyhow(e)

\* Frame of a StateRead call: it completes in one step.
StateReadDone(name, a, res) ==
    /\ pc = "idle"
    /\ pc' = "done"
    /\ op' = name
    /\ args' = a
    /\ result' = res
    /\ UNCHANGED <<store, fields, limit, backendLog, fetched, has_next_page,
                   next_cursor, objects, tasks, completed, name_bcs_value,
                   client>>

\* a raw failure is converted: StateReadError::from(e)
convert(e) ==
    StateReadDone("StateReadError::from", [error |-> e],
                  Err(state_read_error_from(e)))

\* lines 281-283: get_object_read; reply: Ok(..) or the MgoError of the state
state_get_object_read(reply) ==
    StateReadDone("StateRead::get_object_read", [reply |-> reply],
                  IF reply.status = "ok" THEN reply
                  ELSE Err(state_read_error_from(reply.error)))

\* lines 472-483: get_balance; indexes: the index store is configured
get_balance(indexes, reply) ==
    StateReadDone("StateRead::get_balance",
                  [indexes |-> indexes, reply |-> reply],
                  IF ~indexes
                  THEN Err(state_read_error_from(
                         [type |-> "MgoError",
                          kind |-> "IndexStoreNotAvailable", detail |-> 0]))
                  ELSE IF reply.status = "ok" THEN reply
                  ELSE Err(state_read_error_from(reply.error)))

\* lines 485-495: get_all_balance
get_all_balance(indexes, reply) ==
    StateReadDone("StateRead::get_all_balance",
                  [indexes |-> indexes, reply |-> reply],
                  IF ~indexes
                  THEN Err(state_read_error_from(
                         [type |-> "MgoError",
                          kind |-> "IndexStoreNotAvailable", detail |-> 0]))
                  ELSE IF reply.status = "ok" THEN reply
                  ELSE Err(state_read_error_from(reply.error)))

\* lines 565-569: get_chain_identifier; known: the identifier is available
get_chain_identifier(known) ==
    StateReadDone("StateRead::get_chain_identifier", [known |-> known],
                  IF known THEN Ok("chain")
                  ELSE Err(state_read_error_from(
                         [type |-> "anyhow", kind |-> "msg", detail |-> 1])))

\* lines 586-597: find_object_lt_or_eq_version; joined: Ok or the JoinError
\* of the monitored task
find_object_lt_or_eq_version(joined) ==
    StateReadDone("ObjectProvider::find_object_lt_or_eq_version",
                  [joined |-> joined],
                  IF joined.status = "ok" THEN joined
                  ELSE Err(state_read_error_from(joined.error)))

InitClassifier ==
    /\ store = [k \in Keys |-> "absent"]
    /\ fields = NoFields
    /\ client = NoClient
    /\ InitRequest

MgoReplies ==
    {Ok("value")} \cup {Err(e) : e \in MgoErrors}

NextClassifier ==
    \/ \E e \in RawErrors : convert(e)
    \/ \E r \in MgoReplies : state_get_object_read(r)
    \/ \E i \in BOOLEAN, r \in MgoReplies : get_balance(i, r)
    \/ \E i \in BOOLEAN, r \in MgoReplies : get_all_balance(i, r)
    \/ \E k \in BOOLEAN : get_chain_identifier(k)
    \/ \E j \in {Ok("value")} \cup {Err(e) : e \in JoinErrors} :
         find_object_lt_or_eq_version(j)
    \/ respond

ClassifierSpec ==
    InitClassifier /\ [][NextClassifier]_vars

(***************************************************************************)
(* A caller that issues the same listing call twice against an unchanged   *)
(* store.  What the environment answers is a function of the stored state, *)
(* so it is the same in both executions: the reader's mode, the row whose  *)
(* conversion fails, and what each item's task meets (its outcome, its     *)
(* conversion, its display lookup).  The order in which the tasks of       *)
(* get_owned_objects complete is free in each execution.                   *)
(***************************************************************************)
RepeatClients ==
    [active : {TRUE},
     op : {"get_owned_objects"},
     query : Queries,
     descending_order : {None},
     limit : Limits,
     cursor : Cursors,
     mode : BackendModes,
     bad : 0..MaxPageLimit,
     runs : {0}, first : {NoResult}, tasks : {<<>>}]
    \cup
    [active : {TRUE},
     op : {"query_transaction_blocks", "query_events"},
     query : {None},
     descending_order : OptBools,
     limit : Limits,
     cursor : Cursors,
     mode : BackendModes,
     bad : {0},
     runs : {0}, first : {NoResult}, tasks : {<<>>}]
    \cup
    [active : {TRUE},
     op : {"get_dynamic_fields"},
     query : {None},
     descending_order : {None},
     limit : Limits,
     cursor : Cursors,
     mode : BackendModes,
     bad : {0},
     runs : {0}, first : {NoResult}, tasks : {<<>>}]

InitRepeat ==
    /\ store \in [Keys -> RowKinds]
    /\ fields = NoFields
    /\ client \in RepeatClients
    /\ InitRequest

repeat_get_owned_objects ==
    /\ client.op = "get_owned_objects"
    /\ get_owned_objects(client.query, client.cursor, client.limit,
                         client.mode, client.bad)

repeat_query_transaction_blocks ==
    /\ client.op = "query_transaction_blocks"
    /\ query_transaction_blocks(client.cursor, client.limit,
                                client.descending_order, client.mode)

repeat_query_events ==
    /\ client.op = "query_events"
    /\ query_events(client.cursor, client.limit, client.descending_order,
                    client.mode)

repeat_get_dynamic_fields ==
    /\ client.op = "get_dynamic_fields"
    /\ get_dynamic_fields(client.cursor, client.limit, client.mode)

\* A task of the second execution meets what the task of the same item met
\* in the first one.
repeat_task(i, outcome, display_ok, conv_ok) ==
    /\ task(i, outcome, display_ok, conv_ok)
    /\ client.runs = 1 =>
         /\ tasks'[i].outcome = client.tasks[i].outcome
         /\ tasks'[i].conv = client.tasks[i].conv
         /\ tasks'[i].display = client.tasks[i].display

\* The caller takes the first response, keeps it, and repeats the call.
repeat_receive ==
    /\ pc = "done"
    /\ client.runs = 0
    /\ client' = [client EXCEPT !.runs = 1, !.first = result,
                                !.tasks = tasks]
    /\ ResetRequest
    /\ UNCHANGED <<store, fields>>

NextRepeat ==
    \/ repeat_get_owned_objects
    \/ repeat_query_transaction_blocks
    \/ repeat_query_events
    \/ repeat_get_dynamic_fields
    \/ \E i \in 1..MaxPageLimit, oc \in TaskOutcomes, d \in BOOLEAN,
          cv \in BOOLEAN :
         repeat_task(i, oc, d, cv)
    \/ join_all
    \/ repeat_receive

RepeatSpec ==
    InitRepeat /\ [][NextRepeat]_vars

(***************************************************************************)
(* Name service: resolve_name_service_address, resolve_name_service_names  *)
(* (lines 296-362).  A name string is the sequence of its dot-separated    *)
(* labels; a Domain keeps its labels in reverse order (top level first).   *)
(***************************************************************************)
Labels ==
    {"a", "mgo", ""}

Names ==
    UNION {[1..n -> Labels] : n \in 1..MaxLabels}

Addresses ==
    1..MaxAddress

Reverse(s) ==
    [i \in 1..Len(s) |-> s[Len(s) + 1 - i]]

\* name.parse::<Domain>(): at least two labels, none of them empty
parse_domain(name) ==
    IF Len(name) >= 2 /\ \A i \in 1..Len(name) : name[i] # ""
    THEN Ok([labels |-> Reverse(name)])
    ELSE Err("InvalidLabel")

\* domain.to_string()
domain_to_string(domain) ==
    Reverse(domain.labels)

Domains ==
    {parse_domain(n).value : n \in {m \in Names : parse_domain(m).status = "ok"}}

\* name_service_config.record_field_id(&domain)
record_field_id(domain) ==
    [registry |-> "registry", domain |-> domain]

\* name_service_config.reverse_record_field_id(address)
reverse_record_field_id(address) ==
    [registry |-> "reverse_registry", address |-> address]

RecordIds ==
    {record_field_id(d) : d \in Domains}

ReverseRecordIds ==
    {reverse_record_field_id(a) : a \in Addresses}

\* Objects of the name service as stored: none, an object of another layout,
\* or a Field whose value is the record.
NoObject ==
    [state |-> "absent", value |-> None]

Malformed ==
    [state |-> "malformed", value |-> None]

FieldObject(value) ==
    [state |-> "field", value |-> Some(value)]

\* NameRecord, reduced to its target_address
NameRecords ==
    [target_address : {None} \cup {Some(a) : a \in Addresses}]

\* object.to_rust::<Field<K, V>>(): None when the layout does not match
to_rust(object) ==
    IF object.state = "field" THEN Some([value |-> unwrap(object.value)])
    ELSE None

NameReadCall(id) ==
    [method |-> "get_object_in_blocking_task", id |-> id, reply |-> "pending"]

NameFrame ==
    UNCHANGED <<store, fields, op, args, limit, fetched, has_next_page,
                next_cursor, objects, tasks, completed, name_bcs_value,
                client>>

\* lines 296-306: the call, up to the await on the record read
resolve_name_service_address(name) ==
    /\ pc = "idle"
    /\ op' = "resolve_name_service_address"
    /\ args' = [name |-> name]
    /\ LET domain == parse_domain(name)
       IN IF domain.status = "err"
          THEN /\ pc' = "done"
               /\ result' = Err(RpcError("from", "InvalidArgumentError"))
               /\ UNCHANGED backendLog
          ELSE /\ pc' = "read_record"
               /\ backendLog' =
                    <<NameReadCall(record_field_id(domain.value))>>
               /\ UNCHANGED result
    /\ UNCHANGED <<store, fields, limit, fetched, has_next_page, next_cursor,
                   objects, tasks, completed, name_bcs_value, client>>

\* Mutant: an object of another layout is treated as a missing record.
record_read_returns_malformed_is_none(ok) ==
    /\ pc = "read_record"
    /\ pc' = "done"
    /\ IF ~ok
       THEN /\ backendLog' = Replied(backendLog, "fail")
            /\ result' = Err(RpcError("from", "IndexerError"))
       ELSE LET record_id == backendLog[1].id
                object == fields.records[record_id]
            IN IF object.state = "absent"
               THEN /\ backendLog' = Replied(backendLog, "None")
                    /\ result' = Ok(None)
               ELSE /\ backendLog' = Replied(backendLog, "Some")
                    /\ result' =
                         IF ~is_some(to_rust(object))
                         THEN Ok(None)
                         ELSE Ok(unwrap(to_rust(object)).value.target_address)
    /\ NameFrame

\* Mutant: the record is found but its target address is not returned.
record_read_returns_target_dropped(ok) ==
    /\ pc = "read_record"
    /\ pc' = "done"
    /\ IF ~ok
       THEN /\ backendLog' = Replied(backendLog, "fail")
            /\ result' = Err(RpcError("from", "IndexerError"))
       ELSE LET record_id == backendLog[1].id
                object == fields.records[record_id]
            IN IF object.state = "absent"
               THEN /\ backendLog' = Replied(backendLog, "None")
                    /\ result' = Ok(None)
               ELSE /\ backendLog' = Replied(backendLog, "Some")
                    /\ result' =
                         IF ~is_some(to_rust(object))
                         THEN Err(RpcError("from",
                                   "PersistentStorageDataCorruptionError"))
                         ELSE Ok(None)
    /\ NameFrame

\* lines 306-320: the record read returns (ok: the reader did not fail)
record_read_returns(ok) ==
    /\ pc = "read_record"
    /\ pc' = "done"
    /\ IF ~ok
       THEN /\ backendLog' = Replied(backendLog, "fail")
            /\ result' = Err(RpcError("from", "IndexerError"))
       ELSE LET record_id == backendLog[1].id
                object == fields.records[record_id]
            IN IF object.state = "absent"
               THEN /\ backendLog' = Replied(backendLog, "None")
                    /\ result' = Ok(None)
               ELSE /\ backendLog' = Replied(backendLog, "Some")
                    /\ result' =
                         IF ~is_some(to_rust(object))
                         THEN Err(RpcError("from",
                                   "PersistentStorageDataCorruptionError"))
                         ELSE Ok(unwrap(to_rust(object)).value.target_address)
    /\ NameFrame

\* Mutant: a zero limit is answered with an empty page, without a read.
resolve_name_service_names_zero_check(address, _cursor, _limit) ==
    /\ pc = "idle"
    /\ op' = "resolve_name_service_names"
    /\ args' = [address |-> address, cursor |-> _cursor, limit |-> _limit]
    /\ IF _limit = Some(0)
       THEN /\ pc' = "done"
            /\ result' = Ok(PageEmpty)
            /\ UNCHANGED backendLog
       ELSE /\ pc' = "read_reverse_record"
            /\ backendLog' = <<NameReadCall(reverse_record_field_id(address))>>
            /\ UNCHANGED result
    /\ UNCHANGED <<store, fields, limit, fetched, has_next_page,
                   next_cursor, objects, tasks, completed, name_bcs_value,
                   client>>

\* lines 323-336: the call, up to the await on the reverse record read
resolve_name_service_names(address, _cursor, _limit) ==
    /\ pc = "idle"
    /\ pc' = "read_reverse_record"
    /\ op' = "resolve_name_service_names"
    /\ args' = [address |-> address, cursor |-> _cursor, limit |-> _limit]
    /\ backendLog' = <<NameReadCall(reverse_record_field_id(address))>>
    /\ UNCHANGED <<store, fields, limit, fetched, has_next_page,
                   next_cursor, objects, tasks, completed, name_bcs_value,
                   result, client>>

\* lines 333-361: the reverse record read returns
reverse_record_read_returns(ok) ==
    /\ pc = "read_reverse_record"
    /\ pc' = "done"
    /\ IF ~ok
       THEN /\ backendLog' = Replied(backendLog, "fail")
            /\ result' = Err(RpcError("from", "IndexerError"))
       ELSE LET reverse_record_id == backendLog[1].id
                object == fields.reverse[reverse_record_id]
            IN IF object.state = "absent"
               THEN /\ backendLog' = Replied(backendLog, "None")
                    /\ result' = Ok(Page(<<>>, None, FALSE))
               ELSE /\ backendLog' = Replied(backendLog, "Some")
                    /\ result' =
                         IF ~is_some(to_rust(object))
                         THEN Err(RpcError("from",
                                   "PersistentStorageDataCorruptionError"))
                         ELSE LET domain == unwrap(to_rust(object)).value
                              IN Ok(Page(<<domain_to_string(domain)>>,
                                         None, FALSE))
    /\ NameFrame

\* Registries holding at most one forward object and one reverse object.
ForwardRegistries ==
    {[id \in RecordIds |-> NoObject]}
    \cup {[id \in RecordIds |-> IF id = at THEN o ELSE NoObject] :
            at \in RecordIds,
            o \in {Malformed} \cup {FieldObject(r) : r \in NameRecords}}

ReverseRegistries ==
    {[id \in ReverseRecordIds |-> NoObject]}
    \cup {[id \in ReverseRecordIds |-> IF id = at THEN o ELSE NoObject] :
            at \in ReverseRecordIds,
            o \in {Malformed} \cup {FieldObject(d) : d \in Domains}}

InitName ==
    /\ store = [k \in Keys |-> "absent"]
    /\ fields \in [records : ForwardRegistries, reverse : ReverseRegistries]
    /\ client = NoClient
    /\ InitRequest

NextName ==
    \/ \E n \in Names : resolve_name_service_address(n)
    \/ \E ok \in BOOLEAN : record_read_returns(ok)
    \/ \E a \in Addresses, c \in Cursors, l \in Limits :
         resolve_name_service_names(a, c, l)
    \/ \E ok \in BOOLEAN : reverse_record_read_returns(ok)
    \/ respond

NameSpec ==
    InitName /\ [][NextName]_vars

(***************************************************************************)
(* ObjectProvider for (Arc<S>, Arc<TransactionKeyValueStore>)::get_object  *)
(* (mgo-json-rpc/src/authority_state.rs, lines 604-619).                   *)
(***************************************************************************)
Versions ==
    1..MaxVersion

\* PastObjectRead, the result of get_past_object_read(id, version)
PastObjectReadKinds ==
    {"ObjectNotExists", "ObjectDeleted", "VersionFound", "VersionNotFound",
     "VersionTooHigh"}

PastObjectRead(kind, id, version) ==
    [kind |-> kind, object_id |-> id, version |-> version]

\* the object id has at version
ObjectAt(id, version) ==
    [object_id |-> id, version |-> version]

UserInputError(kind, id, version) ==
    [type |-> "UserInputError", kind |-> kind,
     detail |-> [object_id |-> id, version |-> version]]

\* PastObjectRead::into_object
into_object(read) ==
    CASE read.kind = "VersionFound" ->
           Ok(ObjectAt(read.object_id, read.version))
      [] read.kind = "ObjectDeleted" ->
           Err(UserInputError("ObjectDeleted", read.object_id,
                              Some(read.version)))
      [] read.kind = "ObjectNotExists" ->
           Err(UserInputError("ObjectNotFound", read.object_id, None))
      [] read.kind = "VersionNotFound" ->
           Err(UserInputError("ObjectNotFound", read.object_id,
                              Some(read.version)))
      [] read.kind = "VersionTooHigh" ->
           Err(UserInputError("ObjectSequenceNumberTooHigh", read.object_id,
                              Some(read.version)))

\* `?` on a UserInputResult inside a function returning StateReadError
into_object_or_error(read) ==
    IF into_object(read).status = "ok" THEN into_object(read)
    ELSE Err(state_read_error_from(into_object(read).error))

\* what get_past_object_read answers: a PastObjectRead or a StateReadError
PastReplies(id, version) ==
    {Ok(PastObjectRead(k, id, version)) : k \in PastObjectReadKinds}
    \cup {Err(state_read_error_from(e)) : e \in MgoErrors}

\* what the key-value store answers: Some(object), None or an MgoError
KvReplies(id, version) ==
    {Ok(Some(ObjectAt(id, version))), Ok(None)}
    \cup {Err(e) : e \in MgoErrors}

KvCall(id, version) ==
    [method |-> "TransactionKeyValueStore::get_object", id |-> id,
     version |-> version, reply |-> "pending"]

ProviderFrame ==
    UNCHANGED <<store, fields, limit, fetched, has_next_page, next_cursor,
                objects, tasks, completed, name_bcs_value, client>>

\* Mutant: the key-value store is consulted only for VersionNotFound.
provider_get_object_version_only(id, version, past) ==
    /\ pc = "idle"
    /\ op' = "ObjectProvider::get_object"
    /\ args' = [id |-> id, version |-> version, past |-> past]
    /\ IF past.status = "err"
       THEN /\ result' = past
            /\ pc' = "done"
            /\ UNCHANGED backendLog
       ELSE IF past.value.kind \in {"VersionNotFound"}
       THEN /\ backendLog' = <<KvCall(id, version)>>
            /\ pc' = "kv_get_object"
            /\ UNCHANGED result
       ELSE /\ result' = into_object_or_error(past.value)
            /\ pc' = "done"
            /\ UNCHANGED backendLog
    /\ ProviderFrame

\* lines 604-611, 616: the past-object read and the match on it, up to the
\* await on the key-value store
provider_get_object(id, version, past) ==
    /\ pc = "idle"
    /\ op' = "ObjectProvider::get_object"
    /\ args' = [id |-> id, version |-> version, past |-> past]
    /\ IF past.status = "err"
       THEN /\ result' = past
            /\ pc' = "done"
            /\ UNCHANGED backendLog
       ELSE IF past.value.kind \in {"ObjectNotExists", "VersionNotFound"}
       THEN /\ backendLog' = <<KvCall(id, version)>>
            /\ pc' = "kv_get_object"
            /\ UNCHANGED result
       ELSE /\ result' = into_object_or_error(past.value)
            /\ pc' = "done"
            /\ UNCHANGED backendLog
    /\ ProviderFrame

\* lines 611-614: the key-value store answers
kv_get_object_returns(reply) ==
    /\ pc = "kv_get_object"
    /\ reply \in KvReplies(args.id, args.version)
    /\ pc' = "done"
    /\ IF reply.status = "err"
       THEN /\ backendLog' = Replied(backendLog, "fail")
            /\ result' = Err(state_read_error_from(reply.error))
       ELSE IF is_some(reply.value)
       THEN /\ backendLog' = Replied(backendLog, "Some")
            /\ result' = Ok(unwrap(reply.value))
       ELSE /\ backendLog' = Replied(backendLog, "None")
            /\ result' = into_object_or_error(
                           PastObjectRead("VersionNotFound", args.id,
                                          args.version))
    /\ UNCHANGED <<op, args>>
    /\ ProviderFrame

InitProvider ==
    /\ store = [k \in Keys |-> "absent"]
    /\ fields = NoFields
    /\ client = NoClient
    /\ InitRequest

NextProvider ==
    \/ /\ pc = "idle"
       /\ \E id \in Keys, version \in Versions :
            \E past \in PastReplies(id, version) :
               provider_get_object(id, version, past)
    \/ /\ pc = "kv_get_object"
       /\ \E reply \in KvReplies(args.id, args.version) :
            kv_get_object_returns(reply)
    \/ respond

ProviderSpec ==
    InitProvider /\ [][NextProvider]_vars

(***************************************************************************)
(* test_encapsulation and Packages (mgo-execution/src/tests.rs).           *)
(* The workspace: the two protocol-sensitive binaries, a crate between     *)
(* them and the execution layer, mgo-execution, one execution-layer crate  *)
(* and one crate the execution layer shares with everybody.  Normal        *)
(* dependencies are acyclic: a package depends on packages listed after    *)
(* it, and the binaries do not depend on each other.                       *)
(***************************************************************************)
Roots ==
    {"mgo-node", "mgo-replay"}

PackageNames ==
    <<"mgo-node", "mgo-replay", "mgo-core", "mgo-execution", "mgo-adapter",
      "mgo-types">>

\* lines 32-38: dependencies of mgo-execution that are not execution crates
ExcludedCrates ==
    {"mgo-protocol-config", "mgo-types", "move-binary-format",
     "move-bytecode-utils", "move-core-types", "move-vm-config",
     "workspace-hack"}

Rank(name) ==
    CHOOSE i \in 1..Len(PackageNames) : PackageNames[i] = name

\* the packages that name may depend on
Later(name) ==
    {PackageNames[i] : i \in (Rank(name) + 1)..Len(PackageNames)} \ Roots

\* cargo_metadata::Dependency, reduced to name, kind and target
Dependency(name, kind) ==
    [name |-> name, kind |-> kind, target |-> None]

\* the lists of at most MaxDeps distinct normal dependencies on names
DependencyLists(names) ==
    {[i \in 1..Len(l) |-> Dependency(l[i], "Normal")] :
       l \in {m \in UNION {[1..n -> names] : n \in 0..MaxDeps} :
                \A i, j \in 1..Len(m) : i # j => m[i] # m[j]}}

\* Packages::new (lines 92-99): the map from package names to packages,
\* each reduced to its dependencies in the order they are listed
PackagesNew(node, replay, core, execution, adapter) ==
    [n \in {PackageNames[i] : i \in 1..Len(PackageNames)} |->
        CASE n = "mgo-node" -> node
          [] n = "mgo-replay" -> replay
          [] n = "mgo-core" -> core
          [] n = "mgo-execution" -> execution
          [] n = "mgo-adapter" -> adapter
          [] OTHER -> <<>>]

\* the dependency lists each package of the workspace may have
NodeDeps ==
    DependencyLists(Later("mgo-node"))

ReplayDeps ==
    DependencyLists(Later("mgo-replay"))

CoreDeps ==
    DependencyLists(Later("mgo-core"))

ExecutionDeps ==
    DependencyLists(Later("mgo-execution"))

AdapterDeps ==
    DependencyLists(Later("mgo-adapter"))

\* dev: the package also has a dev-dependency on the execution-layer crate
WithDevDependency(deps, dev) ==
    IF dev THEN Append(deps, Dependency("mgo-adapter", "Development"))
    ELSE deps

\* lines 122-135: the edges from pkg to its normal, non-target-specific
\* dependencies, in the order they are listed
normal_edges(packages, pkg) ==
    IF pkg \notin DOMAIN packages THEN <<>>
    ELSE LET deps == SelectSeq(packages[pkg],
                               LAMBDA dep : dep.kind = "Normal"
                                            /\ dep.target = None)
         IN [i \in 1..Len(deps) |-> <<pkg, deps[i].name>>]

\* lines 139-141
normal_deps(packages, pkg) ==
    {normal_edges(packages, pkg)[i][2] :
       i \in 1..Len(normal_edges(packages, pkg))}

\* DiGraphMap: nodes and edges
EmptyGraph ==
    [nodes |-> {}, edges |-> {}]

add_edge(g, from, to) ==
    [nodes |-> g.nodes \cup {from, to}, edges |-> g.edges \cup {<<from, to>>}]

remove_node(g, n) ==
    [nodes |-> g.nodes \ {n},
     edges |-> {e \in g.edges : e[1] # n /\ e[2] # n}]

\* lines 109-114: the loop of Packages::graph; the stack is popped at its end
RECURSIVE graph_loop(_, _, _)
graph_loop(packages, g, stack) ==
    IF stack = <<>> THEN g
    ELSE LET from == stack[Len(stack)][1]
             to   == stack[Len(stack)][2]
             rest == SubSeq(stack, 1, Len(stack) - 1)
         IN IF to \notin g.nodes
            THEN graph_loop(packages, add_edge(g, from, to),
                            rest \o normal_edges(packages, to))
            ELSE graph_loop(packages, g, rest)

\* lines 104-117: Packages::graph
graph(packages, root) ==
    graph_loop(packages, EmptyGraph, normal_edges(packages, root))

\* petgraph all_simple_paths: the simple paths of g that extend path to `to`
RECURSIVE simple_paths_from(_, _, _)
simple_paths_from(g, path, to) ==
    IF path[Len(path)] = to THEN {path}
    ELSE UNION {simple_paths_from(g, Append(path, e[2]), to) :
                  e \in {d \in g.edges :
                           /\ d[1] = path[Len(path)]
                           /\ \A i \in 1..Len(path) : path[i] # d[2]}}

all_simple_paths(g, from, to) ==
    simple_paths_from(g, <<from>>, to)

\* lines 28-38
exec_crates(packages) ==
    normal_deps(packages, "mgo-execution") \ ExcludedCrates

\* lines 41-59: the problematic paths from the roots to execution crates
examples(packages) ==
    UNION {all_simple_paths(
             remove_node(remove_node(graph(packages, root), "mgo-execution"),
                         "workspace-hack"),
             root, exec_crate) :
             root \in Roots, exec_crate \in exec_crates(packages)}

\* lines 23-76: the test returns, or panics with the example paths
test_encapsulation(packages) ==
    LET found == examples(packages)
    IN StateReadDone("test_encapsulation", [packages |-> packages],
                     IF found = {} THEN Ok("passed")
                     ELSE Err([panic |-> found]))

InitGraph ==
    /\ store = [k \in Keys |-> "absent"]
    /\ fields = NoFields
    /\ client = NoClient
    /\ InitRequest

\* The test runs on the output of `cargo metadata` for some workspace.
NextGraph ==
    \/ /\ pc = "idle"
       /\ \E a \in NodeDeps, b \in ReplayDeps, c \in CoreDeps,
             d \in ExecutionDeps, e \in AdapterDeps, dev \in BOOLEAN :
            test_encapsulation(
              PackagesNew(WithDevDependency(a, dev), b, c, d, e))
    \/ respond

GraphSpec ==
    InitGraph /\ [][NextGraph]_vars

(***************************************************************************)
(* Observations on the current request used by the properties.             *)
(***************************************************************************)
ListingOps ==
    {"get_owned_objects", "query_transaction_blocks", "query_events",
     "get_dynamic_fields"}

Returned ==
    pc = "done" /\ op \in ListingOps /\ result.status = "ok"

\* the direction the current request asked the reader for
ArgDescending ==
    IF op \in {"query_transaction_blocks", "query_events"}
    THEN unwrap_or(args.descending_order, FALSE)
    ELSE FALSE

\* key (object id, digest, event id) of a fetched row / of a page element
RowKey(row) ==
    CASE op = "query_transaction_blocks" -> row.digest
      [] op = "query_events" -> row.id
      [] OTHER -> row.object_id

ElemKey(e) ==
    CASE op = "query_transaction_blocks" -> e.digest
      [] op = "query_events" -> e.id
      [] op = "get_dynamic_fields" -> e.object_id
      [] OTHER -> IF is_some(e.data) THEN unwrap(e.data).object_id
                  ELSE unwrap(e.error).object_id

FetchedKeys ==
    [i \in 1..Len(fetched) |-> RowKey(fetched[i])]

DataKeys ==
    [i \in 1..Len(result.value.data) |-> ElemKey(result.value.data[i])]

\* the reader returned the first min(limit + 1, n) rows beyond the cursor
FetchFaithful ==
    FetchedKeys = truncate(RowsAfter(args.cursor, ArgDescending), limit + 1)

(***************************************************************************)
(* C1: for each of the four listing operations, every cursor, every        *)
(* effective limit > 0 and any number of rows returned by the backend, a   *)
(* successful call returns a page of at most limit elements.               *)
(***************************************************************************)
C1_PageLengthAtMostLimit ==
    (Returned /\ limit > 0) => Len(result.value.data) <= limit

\* a page cut to limit although the reader returned more than limit + 1 rows
C1_Witness ==
    /\ Returned
    /\ op = "get_owned_objects"
    /\ limit > 0
    /\ Len(fetched) > limit + 1
    /\ Len(result.value.data) = limit

(***************************************************************************)
(* C2: with effective limit > 0 the backend is asked for exactly           *)
(* limit + 1 rows; has_next_page is true iff the backend returned more     *)
(* than limit rows; against a backend returning the first                  *)
(* min(limit + 1, n) of the n rows beyond the cursor it is true iff        *)
(* n > limit.                                                              *)
(***************************************************************************)
C2_HasNextPage ==
    (pc \in {"join", "done"} /\ op \in ListingOps /\ limit > 0) =>
        /\ Len(backendLog) = 1
        /\ backendLog[1].limit = limit + 1
        /\ backendLog[1].cursor = args.cursor
        /\ Returned =>
             /\ result.value.has_next_page <=> (Len(fetched) > limit)
             /\ FetchFaithful =>
                  (result.value.has_next_page <=>
                     Len(RowsAfter(args.cursor, ArgDescending)) > limit)

\* a faithful fetch with more than limit rows beyond the cursor
C2_Witness ==
    /\ Returned
    /\ op = "query_transaction_blocks"
    /\ limit > 0
    /\ FetchFaithful
    /\ Len(RowsAfter(args.cursor, ArgDescending)) > limit
    /\ result.value.has_next_page

(***************************************************************************)
(* C3: next_cursor of a returned page is None exactly when data is empty;  *)
(* otherwise it is the key of the last element of data after truncation,   *)
(* never the key of the discarded overflow row.                            *)
(***************************************************************************)
C3_NextCursor ==
    Returned =>
        LET page == result.value
            n    == Len(page.data)
        IN /\ (page.next_cursor = None) <=> (n = 0)
           /\ n > 0 => page.next_cursor = Some(DataKeys[n])
           /\ n > 0 => page.next_cursor = Some(FetchedKeys[n])
           /\ \A j \in (n + 1)..Len(fetched) :
                  page.next_cursor # Some(FetchedKeys[j])

\* a non-empty page whose fetch had an overflow row
C3_Witness ==
    /\ Returned
    /\ op = "get_dynamic_fields"
    /\ Len(result.value.data) > 0
    /\ Len(fetched) > Len(result.value.data)
    /\ result.value.next_cursor = Some(FetchedKeys[limit])

(***************************************************************************)
(* C4: with effective limit 0 a listing call succeeds with the empty page  *)
(* and performs no call on the backend reader, whatever the cursor and the *)
(* backend state.                                                          *)
(***************************************************************************)
C4_ZeroLimit ==
    (pc = "done" /\ op \in ListingOps /\ limit = 0) =>
        /\ result = Ok(PageEmpty)
        /\ backendLog = <<>>
        /\ fetched = <<>>

\* a zero-limit call with a cursor, on a backend that has rows beyond it
C4_Witness ==
    /\ pc = "done"
    /\ op = "query_events"
    /\ limit = 0
    /\ is_some(args.cursor)
    /\ RowsAfter(args.cursor, ArgDescending) # <<>>
    /\ result = Ok(PageEmpty)

(***************************************************************************)
(* Observations on the tasks of the current get_owned_objects request.     *)
(***************************************************************************)
\* the request went through the fan-out: every spawned task has finished
Joined ==
    /\ pc = "done"
    /\ op = "get_owned_objects"
    /\ limit > 0
    /\ Len(tasks) = Len(objects)
    /\ \A i \in 1..Len(tasks) : tasks[i].state = "finished"

\* no task had a base-conversion failure or a join failure
NoHardFailure ==
    \A i \in 1..Len(tasks) :
        tasks[i].outcome = "run" /\ tasks[i].conv # "failed"

\* the base data of the object stored under key k
BaseData(k, display) ==
    [object_id |-> k, version |-> RowVersion(k), digest |-> RowDigest(k),
     content |-> k, display |-> display]

(***************************************************************************)
(* C6: in get_owned_objects the i-th element of the returned page is the   *)
(* response built from the i-th object of the truncated fetch result,      *)
(* under every completion order of the spawned per-item tasks.             *)
(***************************************************************************)
C6_PageInFetchOrder ==
    (Returned /\ op = "get_owned_objects" /\ limit > 0) =>
        /\ Len(result.value.data) = Len(objects)
        /\ \A i \in 1..Len(objects) :
             /\ result.value.data[i] = tasks[i].out.resp
             /\ object_id(objects[i]) = fetched[i].object_id
             /\ ElemKey(result.value.data[i]) = fetched[i].object_id

\* a returned page of distinct responses whose tasks completed out of order
C6_Witness ==
    /\ Returned
    /\ op = "get_owned_objects"
    /\ Len(result.value.data) >= 2
    /\ completed[1] # 1
    /\ result.value.data[1] # result.value.data[2]

(***************************************************************************)
(* C7: in get_owned_objects with show_display, when the display lookup     *)
(* fails for item k and no item has a base-conversion or join failure, the *)
(* call succeeds with all N items in order: item k carries its base data   *)
(* and a DisplayError, every other Exists item its data with rendered      *)
(* display fields and no error.                                            *)
(***************************************************************************)
C7_DisplayFailureDegradesItem ==
    (/\ Joined
     /\ ShowDisplay
     /\ NoHardFailure
     /\ \E k \in 1..Len(tasks) : tasks[k].display = "failed") =>
        /\ result.status = "ok"
        /\ Len(result.value.data) = Len(objects)
        /\ \A i \in 1..Len(objects) :
             LET k == fetched[i].object_id
                 r == result.value.data[i]
             IN /\ tasks[i].display = "failed" =>
                      /\ r.data = Some(BaseData(k, None))
                      /\ is_some(r.error)
                      /\ unwrap(r.error).code = "DisplayError"
                /\ tasks[i].display = "ok" =>
                      /\ r.data = Some(BaseData(k, Some(RenderedFields(k))))
                      /\ r.error = None

\* a page of two Exists items: the lookup failed for one, succeeded for the other
C7_Witness ==
    /\ Joined
    /\ ShowDisplay
    /\ NoHardFailure
    /\ result.status = "ok"
    /\ \E k, j \in 1..Len(tasks) :
          /\ tasks[k].display = "failed"
          /\ tasks[j].display = "ok"

(***************************************************************************)
(* C8: after a successful fetch, get_owned_objects returns an error (no    *)
(* page) iff the try_into conversion of some item of the page failed or    *)
(* some spawned task ended in a join failure.                              *)
(***************************************************************************)
C8_HardFailureFailsPage ==
    [][(pc = "join" /\ pc' = "done") =>
          (result'.status = "err" <=>
             \E i \in 1..Len(tasks) :
                 tasks[i].conv = "failed" \/ tasks[i].outcome # "run")]_vars

\* an error although another item of the page produced its response
C8_Witness ==
    /\ Joined
    /\ result.status = "err"
    /\ \E i, j \in 1..Len(tasks) :
          /\ tasks[i].conv = "failed"
          /\ tasks[j].out.kind = "Ok"

(***************************************************************************)
(* C9: the response of an item of get_owned_objects is determined by its   *)
(* ObjectRead variant: NotExists gives no data and a NotExists error for   *)
(* the id; Deleted gives no data and a Deleted error with that id, version *)
(* and digest; Exists without show_display gives the base data and no      *)
(* error; the display lookup is called only for Exists items when          *)
(* show_display is requested.                                              *)
(***************************************************************************)
C9_VariantHandling ==
    (op = "get_owned_objects" /\ pc \in {"join", "done"}) =>
        \A i \in 1..Len(tasks) :
            LET k == fetched[i].object_id
                t == tasks[i]
            IN /\ t.display_calls > 0 => (store[k] = "Exists" /\ ShowDisplay)
               /\ (t.state = "finished" /\ t.out.kind = "Ok") =>
                    /\ store[k] = "NotExists" =>
                         /\ t.out.resp.data = None
                         /\ t.out.resp.error =
                              Some([code |-> "NotExists", object_id |-> k])
                    /\ store[k] = "Deleted" =>
                         /\ t.out.resp.data = None
                         /\ t.out.resp.error =
                              Some([code |-> "Deleted", object_id |-> k,
                                    version |-> RowVersion(k),
                                    digest |-> RowDigest(k)])
                    /\ (store[k] = "Exists" /\ ~ShowDisplay) =>
                         /\ t.out.resp.data = Some(BaseData(k, None))
                         /\ t.out.resp.error = None
                         /\ t.display_calls = 0
                    /\ Returned => result.value.data[i] = t.out.resp

\* a returned page holding a NotExists, a Deleted and an Exists item
C9_Witness ==
    /\ Returned
    /\ op = "get_owned_objects"
    /\ ~ShowDisplay
    /\ \E i, j \in 1..Len(tasks) :
          /\ store[fetched[i].object_id] = "Deleted"
          /\ store[fetched[j].object_id] = "Exists"
          /\ is_some(result.value.data[j].data)

(***************************************************************************)
(* C5: against an unchanged backend that returns the rows strictly after   *)
(* the cursor in a fixed total order, a caller paging from cursor None     *)
(* with a fixed limit > 0 until has_next_page is false receives every row  *)
(* of the result set exactly once and in order, in finitely many pages.    *)
(***************************************************************************)
\* the whole result set of the paging caller's query, in its order
AllRows ==
    RowsAfter(None, unwrap_or(client.descending_order, FALSE))

C5_PagingCompleteNoDuplicates ==
    client.active =>
        \* what was received so far is a prefix of the result set
        /\ Len(client.acc) <= Len(AllRows)
        /\ client.acc = SubSeq(AllRows, 1, Len(client.acc))
        \* a caller that stopped on has_next_page = false received all of it
        /\ (client.done /\ ~client.failed) => client.acc = AllRows
        \* every page but the last brings at least one new row
        /\ client.pages <= Len(client.acc) + 1
        /\ client.pages <= Len(AllRows) + 1

\* a result set of at least three rows received in at least three pages
C5_Witness ==
    /\ client.active
    /\ client.done /\ ~client.failed
    /\ client.pages >= 3
    /\ Len(client.acc) >= 3
    /\ client.acc = AllRows

(***************************************************************************)
(* Observations on the current get_dynamic_field_object request.           *)
(***************************************************************************)
DfoDone ==
    pc = "done" /\ op = "get_dynamic_field_object"

\* id1 and id2 of the current request
Id1 ==
    derive_dynamic_field_id(args.parent_object_id, args.name.type_,
                            bcs_name(args.name))

Id2 ==
    derive_dynamic_field_id(args.parent_object_id,
                            dynamic_object_field_wrapper(args.name.type_),
                            bcs_name(args.name))

\* the response carrying the data of the object at id
FieldResponse(id) ==
    MgoObjectResponse(Some(MgoObjectData(FieldRef(id), id, None)), None)

\* both objects exist and the read of id1 returned Exists
BothExistFirstReadExists ==
    /\ DfoDone
    /\ fields[Id1] = "Exists"
    /\ fields[Id2] = "Exists"
    /\ Len(backendLog) >= 2
    /\ backendLog[2].reply = "Exists"

(***************************************************************************)
(* C10 as stated: when the objects at id1 and at id2 both exist (and the   *)
(* id1 read is Exists), get_dynamic_field_object returns the data of the   *)
(* id1 object.                                                             *)
(***************************************************************************)
C10_Original ==
    BothExistFirstReadExists => result = Ok(FieldResponse(Id1))

(***************************************************************************)
(* C10 amended: when both objects exist and the id1 read is Exists, the    *)
(* call returns the data of the id1 object if the conversion of that       *)
(* object to response data succeeds and an error otherwise; id2 is neither *)
(* read nor returned while the id1 read is Exists.                         *)
(***************************************************************************)
C10_FirstProbePriority ==
    /\ BothExistFirstReadExists =>
         /\ backendLog[2].id = Id1
         /\ Len(backendLog) = 2
         /\ result.status = "ok" => result.value = FieldResponse(Id1)
         /\ result.status = "err" =>
              result.error = RpcError("from", "ConversionError")
    /\ (DfoDone /\ Len(backendLog) >= 2 /\ backendLog[2].reply = "Exists"
        /\ result.status = "ok") =>
         /\ is_some(result.value.data)
         /\ unwrap(result.value.data).object_id # Id2

\* both objects exist and the data of the id1 object has been returned
C10_Witness ==
    /\ BothExistFirstReadExists
    /\ result.status = "ok"
    /\ unwrap(result.value.data).object_id = Id1
    /\ Id1 # Id2

(***************************************************************************)
(* C11: when both reads of get_dynamic_field_object succeed and neither    *)
(* the id1 read nor the id2 read is Exists, the call returns a successful  *)
(* response carrying DynamicFieldNotFound with the caller's parent id and  *)
(* no data; it does not return an RPC error.                               *)
(***************************************************************************)
NonExists ==
    {"NotExists", "Deleted"}

NeitherProbeExists ==
    /\ DfoDone
    /\ Len(backendLog) = 3
    /\ backendLog[2].reply \in NonExists
    /\ backendLog[3].reply \in NonExists

C11_NotFoundIsResponse ==
    NeitherProbeExists =>
        /\ result.status = "ok"
        /\ result.value.data = None
        /\ result.value.error =
             Some([code |-> "DynamicFieldNotFound",
                   parent_object_id |-> args.parent_object_id])

\* a Deleted id1 and a NotExists id2 under the second parent
C11_Witness ==
    /\ NeitherProbeExists
    /\ args.parent_object_id = 2
    /\ backendLog[2].reply = "Deleted"
    /\ backendLog[3].reply = "NotExists"
    /\ result.status = "ok"
    /\ unwrap(result.value.error).parent_object_id = 2

(***************************************************************************)
(* C12 as stated: id2 (wrapper type, same parent, same BCS name value) is  *)
(* read only after the id1 read returned a non-Exists result, and when     *)
(* that second read is Exists the call returns the id2 object's data; one  *)
(* object read when the id1 read is Exists, otherwise at most two.         *)
(***************************************************************************)
\* the object reads of the current request, in the order they were issued
ObjectReads ==
    SelectSeq(backendLog,
              LAMBDA c : c.method = "get_object_read_in_blocking_task")

SecondProbeOrder ==
    op = "get_dynamic_field_object" =>
        /\ Len(ObjectReads) <= 2
        /\ Len(ObjectReads) >= 1 =>
             /\ ObjectReads[1].id = Id1
             /\ ObjectReads[1].reply = "Exists" => Len(ObjectReads) = 1
        /\ Len(ObjectReads) = 2 =>
             /\ ObjectReads[1].reply \in NonExists
             /\ ObjectReads[2].id = Id2
             /\ ObjectReads[2].id.parent = ObjectReads[1].id.parent
             /\ ObjectReads[2].id.bcs = ObjectReads[1].id.bcs

SecondReadExists ==
    /\ DfoDone
    /\ Len(ObjectReads) = 2
    /\ ObjectReads[2].reply = "Exists"

C12_Original ==
    /\ SecondProbeOrder
    /\ SecondReadExists => result = Ok(FieldResponse(Id2))

(***************************************************************************)
(* C12 amended: id2 is read only after the id1 read returned a non-Exists  *)
(* result; when that second read is Exists the call returns the id2        *)
(* object's data if the conversion of that object to response data         *)
(* succeeds and an error otherwise; one object read when the id1 read is   *)
(* Exists, otherwise at most two.                                          *)
(***************************************************************************)
C12_SecondProbe ==
    /\ SecondProbeOrder
    /\ SecondReadExists =>
         /\ result.status = "ok" => result.value = FieldResponse(Id2)
         /\ result.status = "err" =>
              result.error = RpcError("from", "ConversionError")

\* id1 is Deleted, id2 exists and its data has been returned
C12_Witness ==
    /\ SecondReadExists
    /\ ObjectReads[1].reply = "Deleted"
    /\ result.status = "ok"
    /\ unwrap(result.value.data).object_id = Id2

(***************************************************************************)
(* C13: the conversion of a raw failure into StateReadError follows the    *)
(* table: MgoError of kind IndexStoreNotAvailable, TransactionNotFound,    *)
(* UnsupportedFeatureError, UserInputError or WrongMessageVersion maps to  *)
(* Client, every other MgoError to Internal, every bare UserInputError to  *)
(* Client, every JoinError and anyhow error to Internal; the original      *)
(* error is preserved inside.                                              *)
(***************************************************************************)
Converted ==
    pc = "done" /\ op = "StateReadError::from"

C13_ClassificationTable ==
    Converted =>
        LET e == args.error
            r == result.error
        IN /\ result.status = "err"
           /\ r.branch \in {"Client", "Internal"}
           /\ r.error = e
           /\ (e.type = "MgoError" /\ e.kind = "IndexStoreNotAvailable")
                => r.branch = "Client"
           /\ (e.type = "MgoError" /\ e.kind = "TransactionNotFound")
                => r.branch = "Client"
           /\ (e.type = "MgoError" /\ e.kind = "UnsupportedFeatureError")
                => r.branch = "Client"
           /\ (e.type = "MgoError" /\ e.kind = "UserInputError")
                => r.branch = "Client"
           /\ (e.type = "MgoError" /\ e.kind = "WrongMessageVersion")
                => r.branch = "Client"
           /\ (e.type = "MgoError" /\ e.kind \in OtherMgoErrorKinds)
                => r.branch = "Internal"
           /\ e.type = "UserInputError" => r.branch = "Client"
           /\ e.type = "JoinError" => r.branch = "Internal"
           /\ e.type = "anyhow" => r.branch = "Internal"

\* a WrongMessageVersion engine error has been classified as Client
C13_Witness ==
    /\ Converted
    /\ args.error.type = "MgoError"
    /\ args.error.kind = "WrongMessageVersion"
    /\ result.error.branch = "Client"
    /\ result.error.error = args.error

(***************************************************************************)
(* C14: a failure of the reader reaches the caller of a listing operation  *)
(* with the Client/Internal kind the classification assigns to it: it is   *)
(* not rewrapped on the way in a form that changes its kind.               *)
(***************************************************************************)
IndexerErrors ==
    {"IndexerError", "InvalidArgumentError"}

\* the kind of a reader failure: an invalid argument is the caller's fault
indexer_error_kind(e) ==
    IF e = "InvalidArgumentError" THEN "Client" ELSE "Internal"

\* the kind under which an error reaches the caller: a failure rewrapped
\* with anyhow::anyhow! is a generic fault, which the table makes Internal
caller_kind(err) ==
    IF err.via = "anyhow"
    THEN from_anyhow(err.source).branch
    ELSE indexer_error_kind(err.source)

ReaderFailed ==
    /\ pc = "done"
    /\ op \in ListingOps
    /\ result.status = "err"
    /\ result.error.source \in IndexerErrors

C14_KindPreserved ==
    ReaderFailed =>
        caller_kind(result.error) = indexer_error_kind(result.error.source)

(***************************************************************************)
(* Observations on name resolution.                                        *)
(***************************************************************************)
AddressResolved ==
    pc = "done" /\ op = "resolve_name_service_address"

NameParses ==
    parse_domain(args.name).status = "ok"

\* the object stored at the forward-record id of the requested name
ForwardObject ==
    fields.records[record_field_id(parse_domain(args.name).value)]

\* the read of the record was answered by the reader
ReadAnswered ==
    Len(backendLog) = 1 /\ backendLog[1].reply \in {"None", "Some"}

(***************************************************************************)
(* C15: for a name that parses as a Domain, resolve_name_service_address   *)
(* returns Ok(None) when no object is stored at the forward-record id of   *)
(* the domain, and Ok(record.target_address) when a well-formed record is  *)
(* stored there.                                                           *)
(***************************************************************************)
C15_ForwardResolution ==
    (AddressResolved /\ NameParses /\ ReadAnswered) =>
        /\ backendLog[1].id = record_field_id(parse_domain(args.name).value)
        /\ ForwardObject.state = "absent" => result = Ok(None)
        /\ ForwardObject.state = "field" =>
             result = Ok(unwrap(ForwardObject.value).target_address)

\* "a.mgo" has a record with a target address, and resolves to it
C15_Witness ==
    /\ AddressResolved
    /\ args.name = <<"a", "mgo">>
    /\ ForwardObject.state = "field"
    /\ is_some(unwrap(ForwardObject.value).target_address)
    /\ result = Ok(unwrap(ForwardObject.value).target_address)

(***************************************************************************)
(* C16: a name that is not a valid Domain fails with the invalid-argument  *)
(* error, which is Client, and no read is issued; an object at the record  *)
(* id that does not decode as the record fails with the storage-corruption *)
(* error, which is Internal.                                               *)
(***************************************************************************)
C16_ForwardErrors ==
    AddressResolved =>
        /\ ~NameParses =>
             /\ result = Err(RpcError("from", "InvalidArgumentError"))
             /\ caller_kind(result.error) = "Client"
             /\ backendLog = <<>>
        /\ (NameParses /\ ReadAnswered /\ ForwardObject.state = "malformed") =>
             /\ result =
                  Err(RpcError("from", "PersistentStorageDataCorruptionError"))
             /\ caller_kind(result.error) = "Internal"

\* a malformed object at the record id of "mgo.a" was read
C16_Witness ==
    /\ AddressResolved
    /\ args.name = <<"mgo", "a">>
    /\ ReadAnswered
    /\ ForwardObject.state = "malformed"
    /\ result.status = "err"

(***************************************************************************)
(* C17: resolve_name_service_names reads the reverse-record id of the      *)
(* address whatever the cursor and the limit are (limit 0 included), and   *)
(* its result is determined by the object stored there: an empty page for  *)
(* no object, a one-element page with the domain's string form for a       *)
(* well-formed record; has_next_page is false and next_cursor is None.     *)
(***************************************************************************)
NamesResolved ==
    pc = "done" /\ op = "resolve_name_service_names"

ReverseObject ==
    fields.reverse[reverse_record_field_id(args.address)]

C17_ReverseResolution ==
    NamesResolved =>
        /\ Len(backendLog) = 1
        /\ backendLog[1].id = reverse_record_field_id(args.address)
        /\ ReadAnswered =>
             /\ ReverseObject.state = "absent" =>
                  result = Ok(Page(<<>>, None, FALSE))
             /\ ReverseObject.state = "field" =>
                  result = Ok(Page(<<Reverse(unwrap(ReverseObject.value).labels)>>,
                                   None, FALSE))

\* limit 0 and a cursor: the page still holds the domain "a.mgo"
C17_Witness ==
    /\ NamesResolved
    /\ args.limit = Some(0)
    /\ is_some(args.cursor)
    /\ ReadAnswered
    /\ result.status = "ok"
    /\ result.value.data = <<(<<"a", "mgo">>)>>
    /\ ~result.value.has_next_page
    /\ result.value.next_cursor = None

(***************************************************************************)
(* C18: the second execution of a listing call, with the same arguments    *)
(* against the same store, returns what the first execution returned,      *)
(* whatever the order in which the tasks of get_owned_objects completed in *)
(* each of them.                                                           *)
(***************************************************************************)
SecondReturned ==
    pc = "done" /\ client.runs = 1

C18_RepeatedCallSamePage ==
    SecondReturned => result = client.first

\* two pages of two items were returned by get_owned_objects, the second
\* execution's tasks having completed in the opposite order
C18_Witness ==
    /\ SecondReturned
    /\ op = "get_owned_objects"
    /\ result.status = "ok"
    /\ Len(result.value.data) = 2
    /\ result.value.data[1] # result.value.data[2]
    /\ completed = <<2, 1>>
    /\ result = client.first

(***************************************************************************)
(* C19: whatever limit the caller of a listing operation supplies, the     *)
(* handler works with None replaced by the system default and a value      *)
(* above the system maximum replaced by the maximum; a call fails only     *)
(* after the reader was asked for that limit plus one row, never on the    *)
(* limit itself, and a returned page has at most the system maximum of     *)
(* elements.                                                               *)
(***************************************************************************)
Called ==
    pc \in {"join", "done"} /\ op \in ListingOps

C19_LimitCappedNeverRejected ==
    Called =>
        /\ ~is_some(args.limit) => limit = DefaultPageLimit
        /\ (is_some(args.limit) /\ unwrap(args.limit) > MaxPageLimit)
             => limit = MaxPageLimit
        /\ (is_some(args.limit) /\ unwrap(args.limit) <= MaxPageLimit)
             => limit = unwrap(args.limit)
        /\ result.status = "err" =>
             /\ Len(backendLog) = 1
             /\ backendLog[1].limit = limit + 1
        /\ result.status = "ok" => Len(result.value.data) <= MaxPageLimit

\* a limit above the maximum was served with a full page of the maximum
C19_Witness ==
    /\ Returned
    /\ op = "get_dynamic_fields"
    /\ args.limit = Some(MaxPageLimit + 1)
    /\ Len(fetched) > MaxPageLimit
    /\ Len(result.value.data) = MaxPageLimit

(***************************************************************************)
(* C20: get_owned_objects spawns one task per item of the truncated page   *)
(* (at most limit, none for the overflow row); while a task is still       *)
(* running no result exists, and the result, success or error, is produced *)
(* only when every spawned task has finished.                              *)
(***************************************************************************)
Spawned ==
    pc \in {"join", "done"} /\ op = "get_owned_objects" /\ Len(objects) > 0

AllFinished ==
    \A i \in 1..Len(tasks) : tasks[i].state = "finished"

C20_JoinBarrier ==
    /\ Spawned =>
         /\ Len(tasks) = Len(objects)
         /\ Len(tasks) = Min(Len(fetched), limit)
         /\ Len(completed) = Cardinality({i \in 1..Len(tasks) :
                                            tasks[i].state = "finished"})
    /\ pc = "join" => result = NoResult
    /\ (pc = "done" /\ op = "get_owned_objects") => AllFinished

\* the first task failed first, the overflow row got no task, and the error
\* was returned after the second task had finished too
C20_Witness ==
    /\ pc = "done"
    /\ op = "get_owned_objects"
    /\ Len(fetched) = limit + 1
    /\ Len(tasks) = 2
    /\ tasks[1].out.kind # "Ok"
    /\ completed = <<1, 2>>
    /\ AllFinished
    /\ result.status = "err"

(***************************************************************************)
(* C21: in get_dynamic_field_object a failed reader call (the BCS name,    *)
(* the id1 read or the id2 read) ends the call with an error and no        *)
(* further call is issued after it; the DynamicFieldNotFound response is   *)
(* returned only after the BCS name and both reads were answered.          *)
(***************************************************************************)
NotFoundResponse ==
    /\ DfoDone
    /\ result.status = "ok"
    /\ is_some(result.value.error)
    /\ unwrap(result.value.error).code = "DynamicFieldNotFound"

C21_FailureIsNotNotFound ==
    /\ op = "get_dynamic_field_object" =>
         \A i \in 1..Len(backendLog) :
             backendLog[i].reply = "fail" =>
                 /\ i = Len(backendLog)
                 /\ pc = "done"
                 /\ result.status = "err"
    /\ NotFoundResponse =>
         /\ Len(backendLog) = 3
         /\ backendLog[1].reply = "ok"
         /\ backendLog[2].reply \in NonExists
         /\ backendLog[3].reply \in NonExists

\* the id1 read found nothing and the id2 read failed: an error is returned
C21_Witness ==
    /\ DfoDone
    /\ Len(backendLog) = 3
    /\ backendLog[2].reply \in NonExists
    /\ backendLog[3].reply = "fail"
    /\ result.status = "err"

(***************************************************************************)
(* C22: test_encapsulation panics whenever, in the normal-dependency graph *)
(* of mgo-node or mgo-replay, an execution-layer crate is reachable from   *)
(* the root by a path that does not pass through mgo-execution, whatever   *)
(* the order in which the dependencies are listed.                         *)
(***************************************************************************)
TestRan ==
    pc = "done" /\ op = "test_encapsulation"

\* the normal-dependency graph of the whole workspace
DependencyGraph(packages) ==
    [nodes |-> DOMAIN packages,
     edges |-> UNION {{normal_edges(packages, n)[i] :
                         i \in 1..Len(normal_edges(packages, n))} :
                        n \in DOMAIN packages}]

\* some execution crate is reachable from a root without mgo-execution
Bypass(packages) ==
    \E root \in Roots, exec_crate \in exec_crates(packages) :
        all_simple_paths(remove_node(DependencyGraph(packages),
                                     "mgo-execution"),
                         root, exec_crate) # {}

C22_BypassDetected ==
    TestRan => (Bypass(args.packages) => result.status = "err")

(***************************************************************************)
(* C23: get_owned_objects converts every fetched row, the overflow row     *)
(* included, before it truncates: when the conversion of any fetched row   *)
(* fails the call returns that error and spawns no task, also when the     *)
(* first limit rows are all convertible.                                   *)
(***************************************************************************)
SomeRowUnreadable ==
    /\ pc \in {"join", "done"}
    /\ op = "get_owned_objects"
    /\ \E i \in 1..Len(fetched) : ~fetched[i].readable

C23_OverflowRowConverted ==
    SomeRowUnreadable =>
        /\ pc = "done"
        /\ result = Err(RpcError("from", "ObjectReadError"))
        /\ tasks = <<>>

\* only the overflow row is not convertible, and the call fails
C23_Witness ==
    /\ pc = "done"
    /\ op = "get_owned_objects"
    /\ limit > 0
    /\ Len(fetched) = limit + 1
    /\ ~fetched[limit + 1].readable
    /\ \A i \in 1..limit : fetched[i].readable
    /\ result.status = "err"

(***************************************************************************)
(* C24: ObjectProvider::get_object of (state reader, key-value store)      *)
(* calls the key-value store exactly when the past-object read answered    *)
(* ObjectNotExists or VersionNotFound; it then returns the store's object, *)
(* or the VersionNotFound error for the id and version when the store has  *)
(* none.  Any other answer is turned into its object or its error, and a   *)
(* failed past-object read is returned as it is, both without a call to    *)
(* the key-value store.                                                    *)
(***************************************************************************)
ProviderCalled ==
    op = "ObjectProvider::get_object"

ProviderDone ==
    pc = "done" /\ ProviderCalled

KvConsulted ==
    Len(backendLog) = 1

PastMissing ==
    /\ args.past.status = "ok"
    /\ args.past.value.kind \in {"ObjectNotExists", "VersionNotFound"}

C24_KvFallback ==
    /\ ProviderCalled =>
         /\ Len(backendLog) <= 1
         /\ KvConsulted <=> PastMissing
    /\ (ProviderDone /\ KvConsulted /\ backendLog[1].reply = "Some") =>
         result = Ok(ObjectAt(args.id, args.version))
    /\ (ProviderDone /\ KvConsulted /\ backendLog[1].reply = "None") =>
         /\ result.status = "err"
         /\ result.error.branch = "Client"
         /\ result.error.error.type = "UserInputError"
         /\ result.error.error =
              UserInputError("ObjectNotFound", args.id, Some(args.version))
    /\ (ProviderDone /\ args.past.status = "err") => result = args.past
    /\ (ProviderDone /\ args.past.status = "ok" /\ ~PastMissing) =>
         IF args.past.value.kind = "VersionFound"
         THEN result = Ok(ObjectAt(args.id, args.version))
         ELSE /\ result.status = "err"
              /\ result.error.error.type = "UserInputError"
              /\ result.error.error = into_object(args.past.value).error

\* the state reader does not know the object, the store has no such version
C24_Witness ==
    /\ ProviderDone
    /\ args.past = Ok(PastObjectRead("ObjectNotExists", args.id, args.version))
    /\ KvConsulted
    /\ backendLog[1].reply = "None"
    /\ result.status = "err"
    /\ result.error.error.kind = "ObjectNotFound"
    /\ result.error.error.detail.version = Some(args.version)

====
